---------------------------- MODULE Spec2Model ----------------------------
(***************************************************************************)
(* Model of the diagnostic classification and scoring engine of Chatsyapp: *)
(* CrashAnalyzer (crash_analyzer.py), FirebaseCrashlyticsBot               *)
(* (firebase_crashlytics_bot.py) and AppPerformanceBot                     *)
(* (app_performance_bot.py).                                               *)
(***************************************************************************)
EXTENDS Integers, Sequences, FiniteSets, TLC

(***************************************************************************)
(* Python floats.  The scores of the program are IEEE-754 binary64 values; *)
(* the model computes them bit for bit.  Only non-negative finite values   *)
(* in the normal range occur.  A float is [m, e] with value m * 2^e, where *)
(* m is a natural number of exactly 53 bits (or zero, with e = 0), kept as *)
(* a little-endian sequence of 15-bit limbs because TLC's integers are 32  *)
(* bits wide.                                                              *)
(***************************************************************************)
LimbBits == 15

Limb == 2^LimbBits

MantBits == 53

\* The element of a singleton set.  The({e(v) : v \in {x}}) is e(x), with x
\* evaluated once whatever the number of times e uses it.
The(S) == CHOOSE x \in S : TRUE

\* The natural numbers as limb sequences.  The operations on them are
\* functions, so that an argument is evaluated once, where it is applied.
Big == Seq(Nat)

BigStrip[a \in Big] ==
    IF a = <<>> THEN <<>>
    ELSE IF a[Len(a)] = 0 THEN BigStrip[SubSeq(a, 1, Len(a) - 1)]
    ELSE a

BigAt(a, i) == IF i <= Len(a) THEN a[i] ELSE 0

BigAddC[a \in Big, b \in Big, i \in Nat, c \in Nat] ==
    IF i > Len(a) /\ i > Len(b)
    THEN (IF c = 0 THEN <<>> ELSE <<c>>)
    ELSE LET x == BigAt(a, i) + BigAt(b, i) + c
         IN  <<x % Limb>> \o BigAddC[a, b, i + 1, x \div Limb]

BigAdd[a \in Big, b \in Big] == BigAddC[a, b, 1, 0]

\* a - b for a >= b
BigSubC[a \in Big, b \in Big, i \in Nat, c \in Nat] ==
    IF i > Len(a) THEN <<>>
    ELSE LET x == BigAt(a, i) - BigAt(b, i) - c
         IN  IF x < 0 THEN <<x + Limb>> \o BigSubC[a, b, i + 1, 1]
             ELSE <<x>> \o BigSubC[a, b, i + 1, 0]

BigSub[a \in Big, b \in Big] == BigStrip[BigSubC[a, b, 1, 0]]

\* -1, 0, 1 as a < b, a = b, a > b (both without leading zero limbs)
BigCmpAt[a \in Big, b \in Big, i \in Nat] ==
    IF i = 0 THEN 0
    ELSE IF a[i] < b[i] THEN -1
    ELSE IF a[i] > b[i] THEN 1
    ELSE BigCmpAt[a, b, i - 1]

BigCmp[a \in Big, b \in Big] ==
    IF Len(a) < Len(b) THEN -1
    ELSE IF Len(a) > Len(b) THEN 1
    ELSE BigCmpAt[a, b, Len(a)]

BigMulSmallC[a \in Big, k \in Nat, i \in Nat, c \in Nat] ==
    IF i > Len(a)
    THEN (IF c = 0 THEN <<>> ELSE <<c>>)
    ELSE LET x == a[i] * k + c
         IN  <<x % Limb>> \o BigMulSmallC[a, k, i + 1, x \div Limb]

\* a * k for 0 <= k < Limb
BigMulSmall[a \in Big, k \in Nat] == IF k = 0 THEN <<>> ELSE BigMulSmallC[a, k, 1, 0]

Zeros(n) == [i \in 1..n |-> 0]

BigMulAt[a \in Big, b \in Big, i \in Nat] ==
    IF i > Len(b) THEN <<>>
    ELSE BigAdd[IF b[i] = 0 THEN <<>> ELSE Zeros(i - 1) \o BigMulSmall[a, b[i]],
                BigMulAt[a, b, i + 1]]

BigMul[a \in Big, b \in Big] == IF a = <<>> \/ b = <<>> THEN <<>> ELSE BigMulAt[a, b, 1]

\* a * 2^n
BigShl[a \in Big, n \in Nat] ==
    IF a = <<>> THEN <<>>
    ELSE Zeros(n \div LimbBits) \o BigMulSmall[a, 2^(n % LimbBits)]

BigDivSmallC[a \in Big, k \in Nat, i \in Nat, r \in Nat] ==
    IF i = 0 THEN <<>>
    ELSE LET x == r * Limb + a[i]
         IN  BigDivSmallC[a, k, i - 1, x % k] \o <<x \div k>>

\* floor(a / 2^n)
BigShr[a \in Big, n \in Nat] ==
    LET q == n \div LimbBits
        d == IF q >= Len(a) THEN <<>> ELSE SubSeq(a, q + 1, Len(a))
    IN  BigStrip[BigDivSmallC[d, 2^(n % LimbBits), Len(d), 0]]

SmallBitLen[k \in Nat] == IF k = 0 THEN 0 ELSE 1 + SmallBitLen[k \div 2]

BigBitLen[a \in Big] ==
    IF a = <<>> THEN 0 ELSE LimbBits * (Len(a) - 1) + SmallBitLen[a[Len(a)]]

BigBit(a, i) == (BigAt(a, i \div LimbBits + 1) \div 2^(i % LimbBits)) % 2

BigOne == <<1>>

\* The number a of at most two limbs stands for
BigToNat[a \in Big] == BigAt(a, 1) + BigAt(a, 2) * Limb

\* floor(r / d) where rtop and dtop are r and d without their last bits, the
\* same number of them: rtop / (dtop + 1) < r / d < (rtop + 1) / dtop
BigDigitNear[r \in Big, d \in Big, rtop \in Nat, dtop \in Nat] ==
    LET lo   == rtop \div (dtop + 1)
        most == (rtop + 1) \div dtop
        hi   == IF most < Limb THEN most ELSE Limb - 1
    IN  CHOOSE k \in lo..hi :
            /\ BigCmp[BigMulSmall[d, k], r] <= 0
            /\ k = hi \/ BigCmp[BigMulSmall[d, k + 1], r] > 0

\* floor(r / d) for 0 < d and r < d * Limb.  Of d the leading LimbBits bits
\* are kept, so the bounds of BigDigitNear are at most a few apart.
BigDigit[r \in Big, d \in Big] ==
    LET s == IF BigBitLen[d] > LimbBits THEN BigBitLen[d] - LimbBits ELSE 0
    IN  BigDigitNear[r, d, BigToNat[BigShr[r, s]], BigToNat[BigShr[d, s]]]

\* The quotient q so far with the next digit k, and what is left of r
BigDivModDigit[d \in Big, q \in Big, r \in Big, k \in Nat] ==
    <<(<<k>> \o q), BigSub[r, BigMulSmall[d, k]]>>

\* One step of the long division by d: r is the remainder so far and the
\* next limb
BigDivModStep[d \in Big, q \in Big, r \in Big] ==
    BigDivModDigit[d, q, r, BigDigit[r, d]]

\* <<floor(n / d), n mod d>> by long division, from limb i of n downwards,
\* qr the quotient and the remainder of the limbs above i
BigDivModAt[n \in Big, d \in Big, i \in Nat, qr \in Big \X Big] ==
    IF i = 0 THEN <<BigStrip[qr[1]], qr[2]>>
    ELSE BigDivModAt[n, d, i - 1,
                     BigDivModStep[d, qr[1], BigStrip[<<n[i]>> \o qr[2]]]]

BigDivMod[n \in Big, d \in Big] == BigDivModAt[n, d, Len(n), <<(<<>>), (<<>>)>>]

BigFromNat[n \in Nat] == IF n = 0 THEN <<>> ELSE <<n % Limb>> \o BigFromNat[n \div Limb]

\* The floats: m * 2^e
Float == [m : Big, e : Int]

FZero == [m |-> <<>>, e |-> 0]

\* The float q * 2^e for a q of 53 bits, or of 54 when rounding carried
FRoundCarry[q \in Big, e \in Int] ==
    IF BigBitLen[q] > MantBits
    THEN [m |-> BigShr[q, 1], e |-> e + 1]
    ELSE [m |-> q, e |-> e]

\* FRound for an x of more than 53 bits: q is x without its last s bits.  It
\* is rounded up when what was cut off is more than half a unit of q, or is
\* half a unit and is followed by more (sticky) or q is odd.
FRoundOff[x \in Big, e \in Int, sticky \in BOOLEAN, s \in Nat, q \in Big] ==
    FRoundCarry[IF BigCmp[BigSub[x, BigShl[q, s]], BigShl[BigOne, s - 1]]
                       >= (IF sticky \/ BigBit(q, 0) = 1 THEN 0 ELSE 1)
                    THEN BigAdd[q, BigOne] ELSE q,
                    e + s]

\* The float nearest to (x + t) * 2^e, ties to even, where 0 < t < 1 when
\* sticky and t = 0 otherwise.
FRound[x \in Big, e \in Int, sticky \in BOOLEAN] ==
    LET L == BigBitLen[x]
    IN  IF x = <<>> THEN FZero
        ELSE IF L <= MantBits
        THEN [m |-> BigShl[x, MantBits - L], e |-> e - (MantBits - L)]
        ELSE FRoundOff[x, e, sticky, L - MantBits, BigShr[x, L - MantBits]]

FInt[n \in Nat] == FRound[BigFromNat[n], 0, FALSE]

FMul[a \in Float, b \in Float] ==
    IF a.m = <<>> \/ b.m = <<>> THEN FZero
    ELSE FRound[BigMul[a.m, b.m], a.e + b.e, FALSE]

FAdd[a \in Float, b \in Float] ==
    IF a.m = <<>> THEN b
    ELSE IF b.m = <<>> THEN a
    ELSE LET e == IF a.e < b.e THEN a.e ELSE b.e
         IN  FRound[BigAdd[BigShl[a.m, a.e - e], BigShl[b.m, b.e - e]], e, FALSE]

\* a < b, a = b, a > b as -1, 0, 1
FCmp[a \in Float, b \in Float] ==
    IF a.m = <<>> THEN (IF b.m = <<>> THEN 0 ELSE -1)
    ELSE IF b.m = <<>> THEN 1
    ELSE IF a.e < b.e THEN -1
    ELSE IF a.e > b.e THEN 1
    ELSE BigCmp[a.m, b.m]

FLt(a, b) == FCmp[a, b] < 0

FLe(a, b) == FCmp[a, b] <= 0

\* a - b for a >= b
FSub[a \in Float, b \in Float] ==
    IF b.m = <<>> THEN a
    ELSE LET e == IF a.e < b.e THEN a.e ELSE b.e
         IN  FRound[BigSub[BigShl[a.m, a.e - e], BigShl[b.m, b.e - e]], e, FALSE]

\* The quotient and the sticky bit of a division, rounded
FDivRound[qr \in Big \X Big, e \in Int] == FRound[qr[1], e, qr[2] # <<>>]

\* a / b for b > 0
FDiv[a \in Float, b \in Float] ==
    IF a.m = <<>> THEN FZero
    ELSE FDivRound[BigDivMod[BigShl[a.m, MantBits + 2], b.m],
                   a.e - b.e - (MantBits + 2)]

\* Python's min(a, b): b if b < a, else a
FMin[a \in Float, b \in Float] == IF FLt(b, a) THEN b ELSE a

\* The float a decimal literal n/d denotes (the nearest to the quotient)
FDec[num \in Nat, den \in Nat] == FDiv[FInt[num], FInt[den]]

\* The float literals of the program
F_1 == FInt[1]

F_0_05 == FDec[5, 100]

F_0_1 == FDec[1, 10]

F_0_10 == FDec[10, 100]

F_0_2 == FDec[2, 10]

F_0_30 == FDec[30, 100]

F_0_5 == FDec[5, 10]

F_0_70 == FDec[70, 100]

F_0_75 == FDec[75, 100]

F_0_80 == FDec[80, 100]

F_0_85 == FDec[85, 100]

F_0_8 == FDec[8, 10]

F_0_9 == FDec[9, 10]

F_1_0 == FDec[10, 10]

F_1_5 == FDec[15, 10]

F_2 == FInt[2]

F_60_0 == FDec[600, 10]

(***************************************************************************)
(* Python dicts are functions; a key that is absent is outside the DOMAIN, *)
(* and the empty dict is <<>>.                                             *)
(***************************************************************************)
Get(d, k, default) == IF k \in DOMAIN d THEN d[k] ELSE default

(***************************************************************************)
(* CrashAnalyzer: the rule base.                                           *)
(***************************************************************************)
stack_trace_patterns ==
    <<
      [category |-> "image_loading", pattern |-> "cached_network_image"],
      [category |-> "image_loading", pattern |-> "ImageLoader\\.loadImageAsync"],
      [category |-> "image_loading", pattern |-> "Invalid image data"],
      [category |-> "image_loading", pattern |-> "image_provider"],
      [category |-> "image_loading", pattern |-> "NetworkImage"],
      [category |-> "image_loading", pattern |-> "image\\.dart"],
      [category |-> "network", pattern |-> "SocketException"],
      [category |-> "network", pattern |-> "TimeoutException"],
      [category |-> "network", pattern |-> "NetworkException"],
      [category |-> "network", pattern |-> "Connection.*failed"],
      [category |-> "network", pattern |-> "HttpException"],
      [category |-> "network", pattern |-> "dio"],
      [category |-> "memory", pattern |-> "OutOfMemoryError"],
      [category |-> "memory", pattern |-> "Memory.*allocation"],
      [category |-> "memory", pattern |-> "Heap.*overflow"],
      [category |-> "memory", pattern |-> "Stack.*overflow"],
      [category |-> "memory", pattern |-> "memory.*leak"],
      [category |-> "ui_rendering", pattern |-> "RenderFlex.*overflow"],
      [category |-> "ui_rendering", pattern |-> "RenderBox.*overflow"],
      [category |-> "ui_rendering", pattern |-> "constraint.*violation"],
      [category |-> "ui_rendering", pattern |-> "widget.*error"],
      [category |-> "ui_rendering", pattern |-> "build.*error"],
      [category |-> "data_parsing", pattern |-> "JsonDecodeException"],
      [category |-> "data_parsing", pattern |-> "FormatException"],
      [category |-> "data_parsing", pattern |-> "parsing.*error"],
      [category |-> "data_parsing", pattern |-> "decode.*error"],
      [category |-> "data_parsing", pattern |-> "serialization.*error"],
      [category |-> "authentication", pattern |-> "AuthException"],
      [category |-> "authentication", pattern |-> "FirebaseAuth"],
      [category |-> "authentication", pattern |-> "login.*failed"],
      [category |-> "authentication", pattern |-> "token.*invalid"],
      [category |-> "authentication", pattern |-> "credential.*error"],
      [category |-> "storage", pattern |-> "FileSystemException"],
      [category |-> "storage", pattern |-> "DatabaseException"],
      [category |-> "storage", pattern |-> "sqlite.*error"],
      [category |-> "storage", pattern |-> "storage.*error"],
      [category |-> "storage", pattern |-> "io.*error"],
      [category |-> "native_plugin", pattern |-> "PlatformException"],
      [category |-> "native_plugin", pattern |-> "MethodChannel"],
      [category |-> "native_plugin", pattern |-> "native.*error"],
      [category |-> "native_plugin", pattern |-> "plugin.*error"],
      [category |-> "native_plugin", pattern |-> "channel.*error"],
      [category |-> "flutter_framework", pattern |-> "main\\.dart"],
      [category |-> "flutter_framework", pattern |-> "Flutter.*initialization"],
      [category |-> "flutter_framework", pattern |-> "framework.*error"],
      [category |-> "flutter_framework", pattern |-> "widget.*binding"],
      [category |-> "flutter_framework", pattern |-> "runApp"]
    >>

error_keywords ==
    <<
      [severity |-> "critical", keyword |-> "crash"],
      [severity |-> "critical", keyword |-> "fatal"],
      [severity |-> "critical", keyword |-> "exception"],
      [severity |-> "critical", keyword |-> "error"],
      [severity |-> "critical", keyword |-> "failed"],
      [severity |-> "warning", keyword |-> "warning"],
      [severity |-> "warning", keyword |-> "deprecated"],
      [severity |-> "warning", keyword |-> "timeout"],
      [severity |-> "warning", keyword |-> "retry"],
      [severity |-> "info", keyword |-> "info"],
      [severity |-> "info", keyword |-> "debug"],
      [severity |-> "info", keyword |-> "trace"],
      [severity |-> "info", keyword |-> "log"]
    >>

(***************************************************************************)
(* Text.  A stack trace is a sequence of lines taken from Lines, or one of *)
(* the two traces of ChatSYCrashManager, whose lines follow those of Lines *)
(* in the tables.  No                                                      *)
(* pattern, keyword or substring of the program contains a newline and     *)
(* "." does not match one, so a search of the newline-joined text succeeds *)
(* exactly when it succeeds on one of the lines.  Searched[l] is the set   *)
(* of stack_trace_patterns that re.search(pattern, l, re.IGNORECASE)       *)
(* finds in line l, and Contained[l] the set of keywords and substrings s  *)
(* of the program with s in l.lower().                                     *)
(***************************************************************************)
Lines ==
    { "com.aichatsy.app",
      "fatal crash: error, failed, exception",
      "Exception: Invalid image data",
      "cached_network_image/src/...",
      "OutOfMemoryError",
      "SocketException: Connection failed",
      "PlatformException(error, MethodChannel)",
      "main.dart:130",
      "RenderFlex overflowed" }

Searched ==
    "com.aichatsy.app" :> {}
    @@ "fatal crash: error, failed, exception" :> {}
    @@ "Exception: Invalid image data" :> {"Invalid image data"}
    @@ "cached_network_image/src/..." :> {"cached_network_image"}
    @@ "OutOfMemoryError" :> {"OutOfMemoryError"}
    @@ "SocketException: Connection failed" :> {"SocketException", "Connection.*failed"}
    @@ "PlatformException(error, MethodChannel)" :> {"io.*error", "PlatformException", "MethodChannel"}
    @@ "main.dart:130" :> {"main\\.dart"}
    @@ "RenderFlex overflowed" :> {"RenderFlex.*overflow"}
    @@ "Exception: Invalid image data. Error thrown." :> {"Invalid image data", "io.*error"}
    @@ "ImageLoader.loadImageAsync.<fn>" :> {"ImageLoader\\.loadImageAsync"}
    @@ "io.flutter.plugins.firebase.crashlytics.FlutterError" :> {"io.*error", "plugin.*error"}
    @@ "package:cached_network_image/src/image_provider/" :>
           {"cached_network_image", "image_provider"}
    @@ "Flutter initialization error" :> {"io.*error", "Flutter.*initialization"}
    @@ "package:chatsy/main.dart:130" :> {"main\\.dart"}

Contained ==
    "com.aichatsy.app" :> {}
    @@ "fatal crash: error, failed, exception" :> {"crash", "fatal", "exception", "error", "failed", "io"}
    @@ "Exception: Invalid image data" :> {"exception", "invalid image data", "io"}
    @@ "cached_network_image/src/..." :> {"cached_network_image", "network"}
    @@ "OutOfMemoryError" :> {"error", "outofmemory"}
    @@ "SocketException: Connection failed" :> {"exception", "failed", "socketexception", "connection", "io"}
    @@ "PlatformException(error, MethodChannel)" :> {"exception", "error", "io"}
    @@ "main.dart:130" :> {"main.dart"}
    @@ "RenderFlex overflowed" :> {"renderflex", "overflow"}
    @@ "Exception: Invalid image data. Error thrown." :>
           {"exception", "error", "invalid image data", "io"}
    @@ "ImageLoader.loadImageAsync.<fn>" :> {"imageloader", "loadimageasync"}
    @@ "io.flutter.plugins.firebase.crashlytics.FlutterError" :>
           {"crash", "error", "flutter", "io", "plugin"}
    @@ "package:cached_network_image/src/image_provider/" :>
           {"cached_network_image", "network"}
    @@ "Flutter initialization error" :> {"error", "flutter", "initialization", "io"}
    @@ "package:chatsy/main.dart:130" :> {"main.dart"}

\* re.search(pattern, '\n'.join(stack_trace), re.IGNORECASE) is not None
re_search(pattern, stack_trace) ==
    \E i \in DOMAIN stack_trace : pattern \in Searched[stack_trace[i]]

\* s in '\n'.join(stack_trace).lower(), for a lower-case s
text_contains(s, stack_trace) ==
    \E i \in DOMAIN stack_trace : s \in Contained[stack_trace[i]]

(***************************************************************************)
(* CrashAnalyzer._analyze_stack_trace.  The matched substrings ("matches", *)
(* "context") and top_functions are text the scoring never reads; they are *)
(* left out of the record.                                                 *)
(***************************************************************************)
find_error_location(stack_trace) ==
    LET hit(i) == \E k \in {"error", "exception", "crash", "failed"} :
                      k \in Contained[stack_trace[i]]
    IN  The({ IF hits = {} THEN [line_number |-> 0, content |-> ""]
              ELSE The({ [line_number |-> i, content |-> stack_trace[i]] :
                         i \in {CHOOSE j \in hits : \A h \in hits : j <= h} }) :
              hits \in {{i \in DOMAIN stack_trace : hit(i)}} })

analyze_stack_trace(stack_trace) ==
    IF stack_trace = <<>>
    THEN [status |-> "no_stack_trace", patterns |-> <<>>, issues |-> <<>>]
    ELSE [status         |-> "analyzed",
          total_lines    |-> Len(stack_trace),
          patterns_found |-> SelectSeq(stack_trace_patterns,
                                 LAMBDA p : re_search(p.pattern, stack_trace)),
          issues_found   |-> SelectSeq(error_keywords,
                                 LAMBDA k : text_contains(k.keyword, stack_trace)),
          stack_depth    |-> Len(stack_trace),
          error_location |-> find_error_location(stack_trace)]

\* CrashAnalyzer._load_analysis_patterns: what __init__ stores in
\* self.analysis_patterns
load_analysis_patterns ==
    [stack_trace_patterns |-> stack_trace_patterns, error_keywords |-> error_keywords]

\* _analyze_stack_trace of an analyzer whose self.analysis_patterns is
\* self_analysis_patterns
analyze_stack_trace_of(self_analysis_patterns, stack_trace) ==
    IF stack_trace = <<>>
    THEN [status |-> "no_stack_trace", patterns |-> <<>>, issues |-> <<>>]
    ELSE [status         |-> "analyzed",
          total_lines    |-> Len(stack_trace),
          patterns_found |-> SelectSeq(self_analysis_patterns.stack_trace_patterns,
                                 LAMBDA p : re_search(p.pattern, stack_trace)),
          issues_found   |-> SelectSeq(self_analysis_patterns.error_keywords,
                                 LAMBDA k : text_contains(k.keyword, stack_trace)),
          stack_depth    |-> Len(stack_trace),
          error_location |-> find_error_location(stack_trace)]

\* determine_crash_category without its answer for no pattern hit
determine_crash_category_first(stack_analysis) ==
    The({ IF patterns = <<>> THEN stack_trace_patterns[1].category
          ELSE patterns[1].category :
          patterns \in {Get(stack_analysis, "patterns_found", <<>>)} })

\* determine_crash_category that takes the category of the first pattern found
determine_crash_category_earliest(stack_analysis) ==
    The({ IF patterns = <<>> THEN "unknown"
          ELSE patterns[1].category :
          patterns \in {Get(stack_analysis, "patterns_found", <<>>)} })

\* determine_crash_category that takes the last of the categories with the
\* most patterns found
determine_crash_category_last_of_ties(stack_analysis) ==
    The({ LET cats     == {patterns[i].category : i \in DOMAIN patterns}
              count(c) == Cardinality({i \in DOMAIN patterns : patterns[i].category = c})
              first(c) == CHOOSE i \in DOMAIN patterns :
                              /\ patterns[i].category = c
                              /\ \A j \in 1..(i - 1) : patterns[j].category # c
          IN  IF patterns = <<>> THEN "unknown"
              ELSE CHOOSE c \in cats :
                       \A d \in cats : \/ count(c) > count(d)
                                       \/ count(c) = count(d) /\ first(c) >= first(d) :
          patterns \in {Get(stack_analysis, "patterns_found", <<>>)} })

(***************************************************************************)
(* CrashAnalyzer._determine_crash_category: max() over the counts dict,    *)
(* whose keys are in order of first insertion; max returns the first of    *)
(* the maximal items.                                                      *)
(***************************************************************************)
determine_crash_category(stack_analysis) ==
    The({ LET cats     == {patterns[i].category : i \in DOMAIN patterns}
              count(c) == Cardinality({i \in DOMAIN patterns : patterns[i].category = c})
              first(c) == CHOOSE i \in DOMAIN patterns :
                              /\ patterns[i].category = c
                              /\ \A j \in 1..(i - 1) : patterns[j].category # c
          IN  IF patterns = <<>> THEN "unknown"
              ELSE CHOOSE c \in cats :
                       \A d \in cats : \/ count(c) > count(d)
                                       \/ count(c) = count(d) /\ first(c) <= first(d) :
          patterns \in {Get(stack_analysis, "patterns_found", <<>>)} })

high_impact_categories == {"memory", "flutter_framework", "native_plugin"}

\* severity_score with the points of the two highest user counts exchanged
severity_score_exchanged(crash_data, stack_analysis) ==
    LET affected_users == Get(crash_data, "affected_users", 0)
        users_points ==
            IF affected_users >= 1000 THEN 30
            ELSE IF affected_users >= 100 THEN 40
            ELSE IF affected_users >= 10 THEN 20
            ELSE IF affected_users >= 1 THEN 10
            ELSE 0
        issues == Get(stack_analysis, "issues_found", <<>>)
        critical_issues ==
            Len(SelectSeq(issues, LAMBDA i : i.severity = "critical"))
        category == determine_crash_category(stack_analysis)
        device_patterns ==
            Get(Get(crash_data, "device_info", <<>>), "patterns", <<>>)
    IN  users_points
        + critical_issues * 15
        + (IF category \in high_impact_categories THEN 25 ELSE 0)
        + (IF \E i \in DOMAIN device_patterns :
                  device_patterns[i] = "low_memory_device"
           THEN 10 ELSE 0)

\* The point total of _determine_crash_severity
severity_score(crash_data, stack_analysis) ==
    LET affected_users == Get(crash_data, "affected_users", 0)
        users_points ==
            IF affected_users >= 1000 THEN 40
            ELSE IF affected_users >= 100 THEN 30
            ELSE IF affected_users >= 10 THEN 20
            ELSE IF affected_users >= 1 THEN 10
            ELSE 0
        issues == Get(stack_analysis, "issues_found", <<>>)
        critical_issues ==
            Len(SelectSeq(issues, LAMBDA i : i.severity = "critical"))
        category == determine_crash_category(stack_analysis)
        device_patterns ==
            Get(Get(crash_data, "device_info", <<>>), "patterns", <<>>)
    IN  users_points
        + critical_issues * 15
        + (IF category \in high_impact_categories THEN 25 ELSE 0)
        + (IF \E i \in DOMAIN device_patterns :
                  device_patterns[i] = "low_memory_device"
           THEN 10 ELSE 0)

\* severity_level that asks for more than 80, 60 and 40 points
severity_level_above(score) ==
    IF score > 80 THEN "critical"
    ELSE IF score > 60 THEN "high"
    ELSE IF score > 40 THEN "medium"
    ELSE "low"

\* severity_level with a fifth name for the lowest scores
severity_level_info(score) ==
    IF score >= 80 THEN "critical"
    ELSE IF score >= 60 THEN "high"
    ELSE IF score >= 40 THEN "medium"
    ELSE IF score >= 20 THEN "low"
    ELSE "info"

severity_level(score) ==
    IF score >= 80 THEN "critical"
    ELSE IF score >= 60 THEN "high"
    ELSE IF score >= 40 THEN "medium"
    ELSE "low"

determine_crash_severity(crash_data, stack_analysis) ==
    severity_level(severity_score(crash_data, stack_analysis))

(***************************************************************************)
(* Device and app strings.  InLower[s] is the set of the program's         *)
(* substrings found in s.lower(); NumberIn[s] is float(n) for the first    *)
(* match n of (\d+(?:\.\d+)?) in s, and s is outside its DOMAIN when       *)
(* re.search returns None; Split[s] is s.split('.'); and                   *)
(* IntLiteral[s] is int(s), with s outside its DOMAIN when int(s) raises   *)
(* ValueError.                                                             *)
(***************************************************************************)
InLower ==
    "android" :> {"android"}
    @@ "ios" :> {"ios"}
    @@ "1GB" :> {"gb"}
    @@ "8GB" :> {"gb"}
    @@ "N/A GB" :> {"gb"}
    @@ "512MB" :> {}
    @@ "" :> {}

NumberIn ==
    "Android 7" :> FDec[7, 1]
    @@ "Android 12+" :> FDec[12, 1]
    @@ "iOS 16.0" :> FDec[160, 10]
    @@ "1GB" :> FDec[1, 1]
    @@ "8GB" :> FDec[8, 1]
    @@ "512MB" :> FDec[512, 1]

Split ==
    "1.3.5" :> <<"1", "3", "5">>
    @@ "2.0.1" :> <<"2", "0", "1">>
    @@ "1.x" :> <<"1", "x">>

IntLiteral ==
    "0" :> 0 @@ "1" :> 1 @@ "2" :> 2 @@ "3" :> 3 @@ "5" :> 5
    @@ "106" :> 106 @@ "1200" :> 1200

\* An exception that leaves the function
Raise(exc) == [exception |-> exc]

Raised(r) == "exception" \in DOMAIN r

\* CrashAnalyzer._extract_version_number
extract_version_number(version_string) ==
    IF version_string \in DOMAIN NumberIn
    THEN NumberIn[version_string]
    ELSE FZero

\* CrashAnalyzer._analyze_device_info
analyze_device_info(device_info) ==
    LET platform   == Get(device_info, "platform", "")
        os_version == Get(device_info, "os_version", "")
        version    == extract_version_number(os_version)
        platform_patterns ==
            IF "android" \in InLower[platform]
            THEN <<"android_platform">>
                 \o (IF os_version = "" THEN <<>>
                     ELSE IF FLt(version, FInt[8]) THEN <<"old_android_version">>
                     ELSE IF FLe(FInt[12], version) THEN <<"new_android_version">>
                     ELSE <<>>)
            ELSE IF "ios" \in InLower[platform] \/ "iphone" \in InLower[platform]
            THEN <<"ios_platform">>
                 \o (IF os_version = "" THEN <<>>
                     ELSE IF FLt(version, FInt[13]) THEN <<"old_ios_version">>
                     ELSE IF FLe(FInt[16], version) THEN <<"new_ios_version">>
                     ELSE <<>>)
            ELSE <<>>
        memory    == Get(device_info, "memory", "")
        memory_gb == NumberIn[memory]
        memory_patterns ==
            IF memory # "" /\ "gb" \in InLower[memory]
            THEN (IF FLt(memory_gb, FInt[2]) THEN <<"low_memory_device">>
                  ELSE IF FLe(FInt[8], memory_gb) THEN <<"high_memory_device">>
                  ELSE <<>>)
            ELSE <<>>
    IN  IF memory # "" /\ "gb" \in InLower[memory] /\ memory \notin DOMAIN NumberIn
        THEN Raise("AttributeError")
        ELSE [platform   |-> Get(device_info, "platform", "unknown"),
              model      |-> Get(device_info, "model", "unknown"),
              os_version |-> Get(device_info, "os_version", "unknown"),
              memory     |-> Get(device_info, "memory", "unknown"),
              storage    |-> Get(device_info, "storage", "unknown"),
              patterns   |-> platform_patterns \o memory_patterns]

\* CrashAnalyzer._analyze_app_info
analyze_app_info(app_info) ==
    LET version       == Get(app_info, "version", "")
        version_parts == Split[version]
        major         == IntLiteral[version_parts[1]]
        minor         == IntLiteral[version_parts[2]]
        version_patterns ==
            IF version # "" /\ Len(version_parts) >= 2
            THEN (IF major = 1 /\ minor <= 3 THEN <<"early_version">>
                  ELSE IF major >= 2 THEN <<"mature_version">>
                  ELSE <<>>)
            ELSE <<>>
        build_number == Get(app_info, "build_number", "")
        build_num    == IntLiteral[build_number]
        build_patterns ==
            IF build_number # "" /\ build_number \in DOMAIN IntLiteral
            THEN (IF build_num < 100 THEN <<"early_build">>
                  ELSE IF build_num >= 1000 THEN <<"mature_build">>
                  ELSE <<>>)
            ELSE <<>>
    IN  IF /\ version # ""
           /\ Len(version_parts) >= 2
           /\ \/ version_parts[1] \notin DOMAIN IntLiteral
              \/ version_parts[2] \notin DOMAIN IntLiteral
        THEN Raise("ValueError")
        ELSE [version        |-> Get(app_info, "version", "unknown"),
              build_number   |-> Get(app_info, "build_number", "unknown"),
              package_name   |-> Get(app_info, "package_name", "unknown"),
              install_source |-> Get(app_info, "install_source", "unknown"),
              patterns       |-> version_patterns \o build_patterns]

\* CrashAnalyzer._get_investigation_steps
get_investigation_steps(category) ==
    IF category = "image_loading"
    THEN << "Reproduce crash with specific image URLs",
            "Test image loading in different network conditions",
            "Verify image format and server response headers",
            "Check for cached image corruption",
            "Test with different image sizes and formats" >>
    ELSE IF category = "network"
    THEN << "Test with poor network connectivity",
            "Verify server availability and response times",
            "Check DNS resolution and routing",
            "Test with different network configurations",
            "Monitor network request/response logs" >>
    ELSE IF category = "memory"
    THEN << "Profile memory usage during crash reproduction",
            "Test with memory-constrained devices",
            "Check for memory leaks in long-running sessions",
            "Monitor garbage collection patterns",
            "Test with different image sizes and quantities" >>
    ELSE << "Review crash logs for specific conditions",
            "Test on affected device types and OS versions",
            "Reproduce with minimal test case",
            "Check for specific user actions that trigger crash" >>

\* The candidate causes of _generate_root_cause_analysis
root_causes_of(category) ==
    IF category = "image_loading"
    THEN << "Invalid or corrupted image data from network source",
            "Network timeout or connection issues during image download",
            "Server returning error pages instead of valid images",
            "Image format not supported or corrupted during transmission",
            "Cached image corruption on device storage",
            "Content-Type header mismatch causing parsing errors" >>
    ELSE IF category = "network"
    THEN << "Poor network connectivity or intermittent connection",
            "Server overload, downtime, or rate limiting",
            "DNS resolution failures or routing issues",
            "Firewall or proxy blocking requests",
            "SSL/TLS certificate validation failures",
            "Network timeout configuration too aggressive" >>
    ELSE IF category = "memory"
    THEN << "Memory leak in image processing or caching",
            "Large image files without proper size optimization",
            "Infinite loops or excessive recursion",
            "Poor memory management in native plugins",
            "Device memory constraints on older hardware",
            "Memory fragmentation from frequent allocations" >>
    ELSE IF category = "ui_rendering"
    THEN << "Layout constraint violations in widget tree",
            "Null safety issues with widget properties",
            "Infinite widget rebuild loops",
            "Platform-specific rendering differences",
            "Memory pressure affecting UI rendering",
            "Widget lifecycle management issues" >>
    ELSE << "Unknown or complex error requiring deeper investigation" >>

\* base_confidence with another fallback for the categories it does not list
base_confidence_fallback(category) ==
    IF category = "image_loading" THEN F_0_85
    ELSE IF category = "network" THEN F_0_80
    ELSE IF category = "memory" THEN F_0_75
    ELSE IF category = "ui_rendering" THEN F_0_70
    ELSE F_0_5

\* The confidence _generate_root_cause_analysis starts from
base_confidence(category) ==
    IF category = "image_loading" THEN F_0_85
    ELSE IF category = "network" THEN F_0_80
    ELSE IF category = "memory" THEN F_0_75
    ELSE IF category = "ui_rendering" THEN F_0_70
    ELSE F_0_30

Has(seq, x) == \E i \in DOMAIN seq : seq[i] = x

\* CrashAnalyzer._generate_root_cause_analysis
generate_root_cause_analysis(category, stack_analysis, device_analysis) ==
    LET root_causes     == root_causes_of(category)
        device_patterns == Get(device_analysis, "patterns", <<>>)
        c0 == base_confidence(category)
        c1 == IF Has(device_patterns, "low_memory_device")
              THEN FAdd[c0, F_0_10] ELSE c0
        c2 == IF \/ Has(device_patterns, "old_android_version")
                 \/ Has(device_patterns, "old_ios_version")
              THEN FAdd[c1, F_0_05] ELSE c1
    IN  [primary_causes |-> SubSeq(root_causes, 1,
                                IF Len(root_causes) < 3 THEN Len(root_causes) ELSE 3),
         all_causes     |-> root_causes,
         confidence     |-> FMin[F_1, c2],
         device_factors |-> device_patterns,
         recommended_investigation |-> get_investigation_steps(category)]

\* CrashAnalyzer._calculate_priority_score
calculate_priority_score(affected_users, severity, business_impact) ==
    LET users_points ==
            IF affected_users >= 1000 THEN 40
            ELSE IF affected_users >= 100 THEN 30
            ELSE IF affected_users >= 10 THEN 20
            ELSE 10
        scores == [critical |-> 30, high |-> 20, medium |-> 10, low |-> 5]
        score  == users_points + Get(scores, severity, 0) + Get(scores, business_impact, 0)
    IN  IF score > 100 THEN 100 ELSE score

\* assess_crash_impact with a critical business impact for the severity
\* critical only
assess_crash_impact_critical_only(crash_data, category, severity) ==
    LET affected_users    == Get(crash_data, "affected_users", 0)
        affected_sessions == Get(crash_data, "affected_sessions", 0)
        user_impact ==
            IF affected_users >= 1000 THEN "critical"
            ELSE IF affected_users >= 100 THEN "high"
            ELSE IF affected_users >= 10 THEN "medium"
            ELSE "low"
        business_impact ==
            IF category \in high_impact_categories /\ severity = "critical"
            THEN "critical"
            ELSE IF severity \in {"critical", "high"} THEN "high"
            ELSE IF severity = "medium" THEN "medium"
            ELSE "low"
        technical_complexity ==
            IF category \in {"native_plugin", "flutter_framework", "memory"} THEN "high"
            ELSE IF category \in {"image_loading", "ui_rendering"} THEN "medium"
            ELSE "low"
        fix_time_estimates ==
            [critical |-> [high |-> "2-4 days", medium |-> "1-2 days", low |-> "4-8 hours"],
             high     |-> [high |-> "1-3 days", medium |-> "4-8 hours", low |-> "2-4 hours"],
             medium   |-> [high |-> "4-8 hours", medium |-> "2-4 hours", low |-> "1-2 hours"],
             low      |-> [high |-> "2-4 hours", medium |-> "1-2 hours", low |-> "30-60 minutes"]]
    IN  [user_impact          |-> user_impact,
         business_impact      |-> business_impact,
         technical_complexity |-> technical_complexity,
         affected_users       |-> affected_users,
         affected_sessions    |-> affected_sessions,
         estimated_fix_time   |-> Get(Get(fix_time_estimates, severity, <<>>),
                                      technical_complexity, "unknown"),
         priority_score       |-> calculate_priority_score(affected_users, severity,
                                                           business_impact)]

\* CrashAnalyzer._assess_crash_impact
assess_crash_impact(crash_data, category, severity) ==
    LET affected_users    == Get(crash_data, "affected_users", 0)
        affected_sessions == Get(crash_data, "affected_sessions", 0)
        user_impact ==
            IF affected_users >= 1000 THEN "critical"
            ELSE IF affected_users >= 100 THEN "high"
            ELSE IF affected_users >= 10 THEN "medium"
            ELSE "low"
        business_impact ==
            IF category \in high_impact_categories /\ severity \in {"critical", "high"}
            THEN "critical"
            ELSE IF severity \in {"critical", "high"} THEN "high"
            ELSE IF severity = "medium" THEN "medium"
            ELSE "low"
        technical_complexity ==
            IF category \in {"native_plugin", "flutter_framework", "memory"} THEN "high"
            ELSE IF category \in {"image_loading", "ui_rendering"} THEN "medium"
            ELSE "low"
        fix_time_estimates ==
            [critical |-> [high |-> "2-4 days", medium |-> "1-2 days", low |-> "4-8 hours"],
             high     |-> [high |-> "1-3 days", medium |-> "4-8 hours", low |-> "2-4 hours"],
             medium   |-> [high |-> "4-8 hours", medium |-> "2-4 hours", low |-> "1-2 hours"],
             low      |-> [high |-> "2-4 hours", medium |-> "1-2 hours", low |-> "30-60 minutes"]]
    IN  [user_impact          |-> user_impact,
         business_impact      |-> business_impact,
         technical_complexity |-> technical_complexity,
         affected_users       |-> affected_users,
         affected_sessions    |-> affected_sessions,
         estimated_fix_time   |-> Get(Get(fix_time_estimates, severity, <<>>),
                                      technical_complexity, "unknown"),
         priority_score       |-> calculate_priority_score(affected_users, severity,
                                                           business_impact)]

Rec(priority, action, description, estimated_time, type) ==
    [priority |-> priority, action |-> action, description |-> description,
     estimated_time |-> estimated_time, type |-> type]

hotfix_recommendation ==
    Rec("immediate", "Hotfix deployment required",
        "Deploy immediate fix due to critical business impact", "2-4 hours", "deployment")

\* The category-specific entries of _generate_recommendations
category_recommendations(category) ==
    IF category = "image_loading"
    THEN << Rec("high", "Implement robust error handling",
                "Add errorWidget to all CachedNetworkImage widgets", "2-4 hours", "code_fix"),
            Rec("high", "Add image validation",
                "Validate image URLs and data before processing", "4-6 hours", "code_fix"),
            Rec("medium", "Implement retry mechanism",
                "Add automatic retry for failed image loads", "3-5 hours", "code_fix"),
            Rec("medium", "Clear corrupted cache",
                "Implement cache clearing for corrupted images", "1-2 hours", "maintenance") >>
    ELSE IF category = "network"
    THEN << Rec("high", "Add connectivity checks",
                "Implement network connectivity validation", "2-3 hours", "code_fix"),
            Rec("high", "Configure timeouts",
                "Set appropriate timeout values for network requests", "1-2 hours",
                "configuration"),
            Rec("medium", "Implement retry logic",
                "Add exponential backoff retry mechanism", "3-4 hours", "code_fix") >>
    ELSE IF category = "memory"
    THEN << Rec("high", "Add memory monitoring",
                "Implement memory usage tracking and limits", "4-6 hours", "code_fix"),
            Rec("high", "Optimize image processing",
                "Implement image compression and size limits", "6-8 hours", "optimization"),
            Rec("medium", "Review resource disposal",
                "Audit and fix memory leaks in resource disposal", "4-6 hours",
                "maintenance") >>
    ELSE <<>>

general_recommendations ==
    << Rec("medium", "Add comprehensive logging",
           "Implement detailed crash logging for better debugging", "2-3 hours", "monitoring"),
       Rec("low", "Update dependencies",
           "Update relevant packages to latest stable versions", "1-2 hours", "maintenance") >>

priority_order == [immediate |-> 0, high |-> 1, medium |-> 2, low |-> 3]

\* A sort by the key that turns the order of equal keys around
sort_by_priority_unstable(recommendations, k) ==
    LET turned == [i \in 1..Len(recommendations) |->
                      recommendations[Len(recommendations) + 1 - i]]
        class(c) == IF c < k THEN <<>>
                    ELSE SelectSeq(turned,
                                   LAMBDA x : Get(priority_order, x.priority, 4) = c)
    IN  class(0) \o class(1) \o class(2) \o class(3) \o class(4)

\* list.sort(key = ...): a stable sort by the key, whose values are 0..4
RECURSIVE sort_by_priority(_, _)
sort_by_priority(recommendations, k) ==
    IF k > 4 THEN <<>>
    ELSE SelectSeq(recommendations,
                   LAMBDA x : Get(priority_order, x.priority, 4) = k)
         \o sort_by_priority(recommendations, k + 1)

\* generate_recommendations with the hotfix added for a critical and again for
\* a critical or high business impact
generate_recommendations_again(category, root_cause, impact) ==
    sort_by_priority(
        (IF impact.business_impact = "critical" THEN <<hotfix_recommendation>> ELSE <<>>)
        \o (IF impact.business_impact \in {"critical", "high"}
            THEN <<hotfix_recommendation>> ELSE <<>>)
        \o category_recommendations(category)
        \o general_recommendations, 0)

\* generate_recommendations that collects the general recommendations before
\* those of the category
generate_recommendations_general_first(category, root_cause, impact) ==
    sort_by_priority(
        (IF impact.business_impact = "critical" THEN <<hotfix_recommendation>> ELSE <<>>)
        \o general_recommendations
        \o category_recommendations(category), 0)

\* generate_recommendations with the hotfix for every critical or high
\* business impact
generate_recommendations_high(category, root_cause, impact) ==
    sort_by_priority(
        (IF impact.business_impact \in {"critical", "high"}
         THEN <<hotfix_recommendation>> ELSE <<>>)
        \o category_recommendations(category)
        \o general_recommendations, 0)

\* CrashAnalyzer._generate_recommendations
generate_recommendations(category, root_cause, impact) ==
    sort_by_priority(
        (IF impact.business_impact = "critical" THEN <<hotfix_recommendation>> ELSE <<>>)
        \o category_recommendations(category)
        \o general_recommendations, 0)

\* CrashAnalyzer.analyze_crash_log, called when datetime.now() is time t
\* CrashAnalyzer.analyze_crash_log, called when datetime.now() is time t.  Each
\* step's result is bound once, innermost last, as the code assigns them.
analyze_crash_log(crash_data, t) ==
    The({ IF Raised(device_analysis) THEN device_analysis
          ELSE IF Raised(app_analysis) THEN app_analysis
          ELSE The({ The({ The({
              [crash_id    |-> Get(crash_data, "id", "unknown"),
               title       |-> Get(crash_data, "title", ""),
               subtitle    |-> Get(crash_data, "subtitle", ""),
               stack_trace |-> stack_trace,
               device_info |-> Get(crash_data, "device_info", <<>>),
               app_info    |-> Get(crash_data, "app_info", <<>>),
               timestamp   |-> Get(crash_data, "timestamp", t),
               analysis_results |->
                   [stack_trace     |-> stack_analysis,
                    device          |-> device_analysis,
                    app             |-> app_analysis,
                    category        |-> category,
                    severity        |-> severity,
                    root_cause      |-> root_cause,
                    impact          |-> impact,
                    recommendations |-> recommendations]] :
              recommendations \in
                  {generate_recommendations(category, root_cause, impact)} }) :
              root_cause \in {generate_root_cause_analysis(category, stack_analysis,
                                                           device_analysis)},
              impact     \in {assess_crash_impact(crash_data, category, severity)} }) :
              category \in {determine_crash_category(stack_analysis)},
              severity \in {determine_crash_severity(crash_data, stack_analysis)} }) :
          stack_trace     \in {Get(crash_data, "stack_trace", <<>>)},
          stack_analysis  \in {analyze_stack_trace(Get(crash_data, "stack_trace", <<>>))},
          device_analysis \in {analyze_device_info(Get(crash_data, "device_info", <<>>))},
          app_analysis    \in {analyze_app_info(Get(crash_data, "app_info", <<>>))} })

(***************************************************************************)
(* FirebaseCrashlyticsBot.                                                 *)
(***************************************************************************)
\* The checks of FirebaseCrashlyticsBot._analyze_stack_trace, in order
crash_groups ==
    << [category   |-> "image_loading",
        patterns   |-> {"cached_network_image", "imageloader", "loadimageasync",
                        "invalid image data"},
        root_cause |-> "Invalid or corrupted image data from network"],
       [category   |-> "network",
        patterns   |-> {"socketexception", "timeoutexception", "network", "connection"},
        root_cause |-> "Network connectivity or timeout issue"],
       [category   |-> "memory",
        patterns   |-> {"outofmemory", "memory allocation", "heap overflow",
                        "stack overflow"},
        root_cause |-> "Memory allocation failure or overflow"],
       [category   |-> "ui_rendering",
        patterns   |-> {"renderflex", "overflow", "constraint", "widget", "build"},
        root_cause |-> "UI layout or rendering constraint violation"],
       [category   |-> "data_parsing",
        patterns   |-> {"json", "parsing", "decode", "format", "serialization"},
        root_cause |-> "Data parsing or serialization error"],
       [category   |-> "authentication",
        patterns   |-> {"auth", "login", "token", "credential", "permission"},
        root_cause |-> "Authentication or authorization failure"],
       [category   |-> "storage",
        patterns   |-> {"storage", "database", "sqlite", "file", "io"},
        root_cause |-> "Storage or file system access error"],
       [category   |-> "native_plugin",
        patterns   |-> {"platform channel", "method channel", "native", "plugin"},
        root_cause |-> "Native plugin or platform channel error"],
       [category   |-> "flutter_framework",
        patterns   |-> {"main.dart", "flutter", "framework", "initialization"},
        root_cause |-> "Flutter framework initialization or core error"] >>

\* FirebaseCrashlyticsBot._analyze_stack_trace: <<category, root cause>>
fb_analyze_stack_trace(stack_trace) ==
    LET hit(i) == \E pat \in crash_groups[i].patterns : text_contains(pat, stack_trace)
    IN  The({ IF hits = {}
              THEN <<"third_party", "Third-party library or unknown error">>
              ELSE The({ <<crash_groups[i].category, crash_groups[i].root_cause>> :
                         i \in {CHOOSE j \in hits : \A h \in hits : j <= h} }) :
              hits \in {{i \in DOMAIN crash_groups : hit(i)}} })

\* FirebaseCrashlyticsBot._calculate_severity
calculate_severity(affected_users) ==
    IF affected_users >= 1000 THEN "critical"
    ELSE IF affected_users >= 100 THEN "high"
    ELSE IF affected_users >= 10 THEN "medium"
    ELSE "low"

\* knowledge_base["fix_strategies"]
fix_strategies ==
    [image_loading |->
        << "Add errorWidget to CachedNetworkImage", "Implement image validation",
           "Add retry mechanism", "Clear corrupted cache",
           "Validate URLs before requests", "Add fallback images",
           "Implement image size limits", "Add Content-Type validation" >>,
     network |->
        << "Implement retry logic", "Add connectivity checks", "Configure timeouts",
           "Add offline handling", "Implement exponential backoff",
           "Add user feedback" >>,
     memory |->
        << "Add memory monitoring", "Implement size limits",
           "Optimize image compression", "Add proper disposal",
           "Handle memory pressure" >>,
     ui_rendering |->
        << "Add null safety checks", "Implement error boundaries",
           "Add loading states", "Handle widget lifecycle",
           "Optimize rendering performance" >>]

\* The words of the program found in root_cause.lower()
root_cause_words ==
    "Invalid or corrupted image data from network" :> {"image", "network"}
    @@ "Network connectivity or timeout issue" :> {"network"}
    @@ "Memory allocation failure or overflow" :> {"memory"}
    @@ "UI layout or rendering constraint violation" :> {}
    @@ "Data parsing or serialization error" :> {}
    @@ "Authentication or authorization failure" :> {}
    @@ "Storage or file system access error" :> {}
    @@ "Native plugin or platform channel error" :> {}
    @@ "Flutter framework initialization or core error" :> {}
    @@ "Third-party library or unknown error" :> {"unknown"}

\* The elements of seq, each once, in order of first occurrence
RECURSIVE distinct(_)
distinct(seq) ==
    The({ IF s = <<>> THEN <<>>
          ELSE The({ IF Has(front, last) THEN distinct(front)
                     ELSE distinct(front) \o <<last>> :
                     front \in {SubSeq(s, 1, Len(s) - 1)}, last \in {s[Len(s)]} }) :
          s \in {seq} })

reversed(seq) == [i \in 1..Len(seq) |-> seq[Len(seq) + 1 - i]]

(***************************************************************************)
(* list(set(seq)).  The order in which a set of strings is listed depends  *)
(* on the strings' hashes, which Python draws anew for every interpreter   *)
(* process (hash randomization) and keeps for the life of the process.     *)
(* Two of the possible orders stand for them all.                          *)
(***************************************************************************)
HashSeeds == {"seed_a", "seed_b"}

list_of_set(seq, seed) ==
    IF seed = "seed_a" THEN distinct(seq) ELSE reversed(distinct(seq))

\* The list FirebaseCrashlyticsBot._generate_suggested_fixes builds
collected_fixes(category, root_cause) ==
    Get(fix_strategies, category, <<>>)
    \o (IF "image" \in root_cause_words[root_cause]
        THEN << "Add errorWidget to CachedNetworkImage widgets",
                "Implement image URL validation before loading",
                "Add image size limits to prevent memory issues",
                "Implement retry mechanism for failed image loads",
                "Clear corrupted cached images",
                "Add fallback images for failed loads" >>
        ELSE <<>>)
    \o (IF "network" \in root_cause_words[root_cause]
        THEN << "Implement network connectivity checks",
                "Add retry logic with exponential backoff",
                "Configure appropriate timeout values",
                "Add offline mode handling",
                "Implement user feedback for network issues" >>
        ELSE <<>>)
    \o (IF "memory" \in root_cause_words[root_cause]
        THEN << "Implement memory monitoring and limits",
                "Optimize image compression and sizing",
                "Add proper disposal of resources",
                "Implement memory pressure handling",
                "Review and fix memory leaks" >>
        ELSE <<>>)

\* FirebaseCrashlyticsBot._generate_suggested_fixes
generate_suggested_fixes(category, root_cause, stack_trace, seed) ==
    list_of_set(collected_fixes(category, root_cause), seed)

\* FirebaseCrashlyticsBot._calculate_confidence_score
calculate_confidence_score(category, root_cause, stack_trace) ==
    LET s0 == F_0_5
        s1 == IF category # "third_party" THEN FAdd[s0, F_0_2] ELSE s0
        s2 == IF root_cause # "" /\ "unknown" \notin root_cause_words[root_cause]
              THEN FAdd[s1, F_0_2] ELSE s1
        s3 == IF Len(stack_trace) > 5 THEN FAdd[s2, F_0_1] ELSE s2
    IN  FMin[F_1, s3]

\* FirebaseCrashlyticsBot._generate_reproduction_steps
generate_reproduction_steps(category, root_cause) ==
    IF category = "image_loading"
    THEN << "1. Identify the problematic image URL from crash logs",
            "2. Test image loading in different network conditions",
            "3. Verify image format and validity",
            "4. Check server response headers",
            "5. Test with cached vs fresh image requests" >>
    ELSE IF category = "network"
    THEN << "1. Test with poor network connectivity",
            "2. Verify server availability and response times",
            "3. Test with different network configurations",
            "4. Check for timeout scenarios",
            "5. Verify DNS resolution" >>
    ELSE IF category = "memory"
    THEN << "1. Load multiple large images simultaneously",
            "2. Test with memory-constrained devices",
            "3. Monitor memory usage during image operations",
            "4. Test rapid image loading and disposal",
            "5. Check for memory leaks in long-running sessions" >>
    ELSE << "1. Review crash logs for specific conditions",
            "2. Test on affected device types and OS versions",
            "3. Reproduce with minimal test case",
            "4. Check for specific user actions that trigger crash",
            "5. Verify fix with regression testing" >>

\* FirebaseCrashlyticsBot.analyze_crash_issue, in a process whose hash seed is
\* seed.  The fields copied from the event that nothing computes with
\* (crash_free_users, first_seen, version_range, ...) are left out.
analyze_crash_issue(crash_data, seed) ==
    The({ LET crash_category == found[1]
              root_cause     == found[2]
              affected_users == Get(crash_data, "affected_users", 0)
          IN
        [issue_id          |-> Get(crash_data, "id", "unknown"),
         title             |-> Get(crash_data, "title", "Unknown Crash"),
         subtitle          |-> Get(crash_data, "subtitle", ""),
         crash_type        |-> crash_category,
         affected_users    |-> affected_users,
         affected_sessions |-> Get(crash_data, "affected_sessions", 0),
         stack_trace       |-> stack_trace,
         device_info       |-> Get(crash_data, "device_info", <<>>),
         severity          |-> calculate_severity(affected_users),
         category          |-> crash_category,
         status            |-> "open",
         confidence_score  |-> calculate_confidence_score(crash_category, root_cause,
                                                          stack_trace),
         suggested_fixes   |-> generate_suggested_fixes(crash_category, root_cause,
                                                        stack_trace, seed),
         root_cause        |-> root_cause,
         reproduction_steps |-> generate_reproduction_steps(crash_category, root_cause)] :
          stack_trace \in {Get(crash_data, "stack_trace", <<>>)},
          found       \in {fb_analyze_stack_trace(Get(crash_data, "stack_trace", <<>>))} })

(***************************************************************************)
(* AppPerformanceBot.  An analyzer returns an issue or None; the model     *)
(* gives the sequence of the issues it returns, <<>> for None.  Of a       *)
(* PerformanceIssue the model keeps the fields that are computed; the      *)
(* fixed texts and improvement_potential, which nothing reads, are left    *)
(* out.                                                                    *)
(***************************************************************************)
performance_thresholds ==
    [startup_time    |-> [excellent |-> FDec[2, 1], good |-> FDec[3, 1],
                          needs_attention |-> FDec[5, 1]],
     memory_usage    |-> [excellent |-> FDec[100, 1], good |-> FDec[150, 1],
                          needs_attention |-> FDec[200, 1]],
     battery_drain   |-> [excellent |-> FDec[3, 1], good |-> FDec[5, 1],
                          needs_attention |-> FDec[8, 1]],
     ui_fps          |-> [excellent |-> FDec[60, 1], good |-> FDec[50, 1],
                          needs_attention |-> FDec[30, 1]],
     network_latency |-> [excellent |-> FDec[200, 1], good |-> FDec[500, 1],
                          needs_attention |-> FDec[1000, 1]]]

PerformanceIssue(issue_id, category, severity, affected_users, performance_impact, current_metric, target_metric, confidence_score) ==
    [issue_id |-> issue_id, category |-> category, severity |-> severity,
     affected_users |-> affected_users, performance_impact |-> performance_impact,
     current_metric |-> current_metric, target_metric |-> target_metric,
     confidence_score |-> confidence_score]

\* analyze_startup_time that reports a value at the excellent threshold
analyze_startup_time_inclusive(performance_data) ==
    The({ The({ IF severity = "none" THEN <<>>
                ELSE << PerformanceIssue("startup_001", "startup_time", severity,
                        Get(performance_data, "affected_users", 1000),
                        FMin[F_1, FDiv[startup_time, thresholds.needs_attention]],
                        startup_time, thresholds.excellent, F_0_9) >> :
                severity \in
                    { IF FLt(thresholds.needs_attention, startup_time) THEN "critical"
                      ELSE IF FLt(thresholds.good, startup_time) THEN "high"
                      ELSE IF FLe(thresholds.excellent, startup_time) THEN "medium"
                      ELSE "none" } }) :
          startup_time \in {Get(performance_data, "startup_time", FZero)},
          thresholds \in {performance_thresholds.startup_time} })

\* AppPerformanceBot._analyze_startup_time
analyze_startup_time(performance_data) ==
    The({ The({ IF severity = "none" THEN <<>>
                ELSE << PerformanceIssue("startup_001", "startup_time", severity,
                        Get(performance_data, "affected_users", 1000),
                        FMin[F_1, FDiv[startup_time, thresholds.needs_attention]],
                        startup_time, thresholds.excellent, F_0_9) >> :
                severity \in
                    { IF FLt(thresholds.needs_attention, startup_time) THEN "critical"
                      ELSE IF FLt(thresholds.good, startup_time) THEN "high"
                      ELSE IF FLt(thresholds.excellent, startup_time) THEN "medium"
                      ELSE "none" } }) :
          startup_time \in {Get(performance_data, "startup_time", FZero)},
          thresholds \in {performance_thresholds.startup_time} })

\* AppPerformanceBot._analyze_memory_usage
analyze_memory_usage(performance_data) ==
    The({ The({ IF severity = "none" THEN <<>>
                ELSE << PerformanceIssue("memory_001", "memory_usage", severity,
                        Get(performance_data, "affected_users", 800),
                        FMin[F_1, FDiv[memory_usage, thresholds.needs_attention]],
                        memory_usage, thresholds.excellent, F_0_85) >> :
                severity \in
                    { IF FLt(thresholds.needs_attention, memory_usage) THEN "critical"
                      ELSE IF FLt(thresholds.good, memory_usage) THEN "high"
                      ELSE IF FLt(thresholds.excellent, memory_usage) THEN "medium"
                      ELSE "none" } }) :
          memory_usage \in {Get(performance_data, "memory_usage", FZero)},
          thresholds \in {performance_thresholds.memory_usage} })

\* AppPerformanceBot._analyze_battery_drain
analyze_battery_drain(performance_data) ==
    The({ The({ IF severity = "none" THEN <<>>
                ELSE << PerformanceIssue("battery_001", "battery_drain", severity,
                        Get(performance_data, "affected_users", 600),
                        FMin[F_1, FDiv[battery_drain, thresholds.needs_attention]],
                        battery_drain, thresholds.excellent, F_0_8) >> :
                severity \in
                    { IF FLt(thresholds.needs_attention, battery_drain) THEN "high"
                      ELSE IF FLt(thresholds.good, battery_drain) THEN "medium"
                      ELSE IF FLt(thresholds.excellent, battery_drain) THEN "low"
                      ELSE "none" } }) :
          battery_drain \in {Get(performance_data, "battery_drain", FZero)},
          thresholds \in {performance_thresholds.battery_drain} })

\* analyze_ui_rendering with the tiers of the frame rate one step milder
analyze_ui_rendering_milder(performance_data) ==
    The({ The({ IF severity = "none" THEN <<>>
                ELSE << PerformanceIssue("ui_001", "ui_rendering", severity,
                        Get(performance_data, "affected_users", 400),
                        FMin[F_1, FDiv[FSub[thresholds.excellent, ui_fps],
                                       thresholds.excellent]],
                        ui_fps, thresholds.excellent, F_0_75) >> :
                severity \in
                    { IF FLt(ui_fps, thresholds.needs_attention) THEN "medium"
                      ELSE IF FLt(ui_fps, thresholds.good) THEN "low"
                      ELSE "none" } }) :
          ui_fps \in {Get(performance_data, "ui_fps", F_60_0)},
          thresholds \in {performance_thresholds.ui_fps} })

\* AppPerformanceBot._analyze_ui_rendering
analyze_ui_rendering(performance_data) ==
    The({ The({ IF severity = "none" THEN <<>>
                ELSE << PerformanceIssue("ui_001", "ui_rendering", severity,
                        Get(performance_data, "affected_users", 400),
                        FMin[F_1, FDiv[FSub[thresholds.excellent, ui_fps],
                                       thresholds.excellent]],
                        ui_fps, thresholds.excellent, F_0_75) >> :
                severity \in
                    { IF FLt(ui_fps, thresholds.needs_attention) THEN "high"
                      ELSE IF FLt(ui_fps, thresholds.good) THEN "medium"
                      ELSE IF FLt(ui_fps, thresholds.excellent) THEN "low"
                      ELSE "none" } }) :
          ui_fps \in {Get(performance_data, "ui_fps", F_60_0)},
          thresholds \in {performance_thresholds.ui_fps} })

\* AppPerformanceBot._analyze_network_performance
analyze_network_performance(performance_data) ==
    The({ The({ IF severity = "none" THEN <<>>
                ELSE << PerformanceIssue("network_001", "network_performance", severity,
                        Get(performance_data, "affected_users", 700),
                        FMin[F_1, FDiv[network_latency, thresholds.needs_attention]],
                        network_latency, thresholds.excellent, F_0_85) >> :
                severity \in
                    { IF FLt(thresholds.needs_attention, network_latency) THEN "high"
                      ELSE IF FLt(thresholds.good, network_latency) THEN "medium"
                      ELSE IF FLt(thresholds.excellent, network_latency) THEN "low"
                      ELSE "none" } }) :
          network_latency \in {Get(performance_data, "network_latency", FZero)},
          thresholds \in {performance_thresholds.network_latency} })

\* AppPerformanceBot._analyze_image_loading
analyze_image_loading(performance_data) ==
    The({ The({ IF severity = "none" THEN <<>>
                ELSE << PerformanceIssue("image_001", "image_loading", severity,
                        Get(performance_data, "affected_users", 500),
                        FMin[F_1, FDiv[image_load_time, FMul[target_time, F_2]]],
                        image_load_time, target_time, F_0_8) >> :
                severity \in
                    { IF FLt(FMul[target_time, F_2], image_load_time) THEN "high"
                      ELSE IF FLt(FMul[target_time, F_1_5], image_load_time) THEN "medium"
                      ELSE IF FLt(target_time, image_load_time) THEN "low"
                      ELSE "none" } }) :
          image_load_time \in {Get(performance_data, "image_load_time", FZero)},
          target_time \in {F_1_0} })

\* AppPerformanceBot.analyze_app_performance
analyze_app_performance(performance_data) ==
    analyze_startup_time(performance_data)
    \o analyze_memory_usage(performance_data)
    \o analyze_battery_drain(performance_data)
    \o analyze_ui_rendering(performance_data)
    \o analyze_network_performance(performance_data)
    \o analyze_image_loading(performance_data)

severity_weights ==
    [critical |-> FZero, high |-> FDec[3, 10], medium |-> FDec[6, 10],
     low |-> FDec[8, 10]]

\* The loop of _calculate_performance_score over issues[i..]:
\* <<total_weight, weighted_score>>
RECURSIVE score_sums(_, _, _, _)
score_sums(issue_list, i, total_weight, weighted_score) ==
    IF i > Len(issue_list) THEN <<total_weight, weighted_score>>
    ELSE The({ score_sums(issue_list, i + 1, FAdd[total_weight, weight],
                          FAdd[weighted_score, FMul[weight, score]]) :
               weight \in {Get(severity_weights, issue_list[i].severity, F_0_5)},
               score  \in {FSub[F_1, issue_list[i].performance_impact]} })

\* calculate_performance_score with 0.0 for issues that weigh nothing
calculate_performance_score_floor(issue_list) ==
    IF issue_list = <<>> THEN F_1
    ELSE The({ IF FLt(FZero, sums[1]) THEN FDiv[sums[2], sums[1]] ELSE FZero :
               sums \in {score_sums(issue_list, 1, FZero, FZero)} })

\* calculate_performance_score with 0.0 for no issue
calculate_performance_score_zero(issue_list) ==
    IF issue_list = <<>> THEN FZero
    ELSE The({ IF FLt(FZero, sums[1]) THEN FDiv[sums[2], sums[1]] ELSE F_1 :
               sums \in {score_sums(issue_list, 1, FZero, FZero)} })

\* calculate_performance_score that divides by the number of issues
calculate_performance_score_mean(issue_list) ==
    IF issue_list = <<>> THEN F_1
    ELSE The({ IF FLt(FZero, sums[1]) THEN FDiv[sums[2], FInt[Len(issue_list)]] ELSE F_1 :
               sums \in {score_sums(issue_list, 1, FZero, FZero)} })

\* calculate_performance_score that returns the weighted sum undivided
calculate_performance_score_sum(issue_list) ==
    IF issue_list = <<>> THEN F_1
    ELSE The({ IF FLt(FZero, sums[1]) THEN sums[2] ELSE F_1 :
               sums \in {score_sums(issue_list, 1, FZero, FZero)} })

\* AppPerformanceBot._calculate_performance_score
calculate_performance_score(issue_list) ==
    IF issue_list = <<>> THEN F_1
    ELSE The({ IF FLt(FZero, sums[1]) THEN FDiv[sums[2], sums[1]] ELSE F_1 :
               sums \in {score_sums(issue_list, 1, FZero, FZero)} })

(***************************************************************************)
(* ChatSYCrashManager.  The dicts of run_comprehensive_crash_analysis are  *)
(* sequences in the order of insertion: the crashes, the rows of           *)
(* crash_analysis, and the fixes as [key, fix].  A line of text is the     *)
(* sequence of the pieces an f-string builds it of, or of the one piece it *)
(* is.  The emoji a heading starts with, the fixed texts of a fixer's      *)
(* result (fixes_applied, next_actions) and top_crash_types of the health  *)
(* metrics are left out.                                                   *)
(***************************************************************************)

\* crash_data of _analyze_current_crashes, without the fields nothing reads
current_crashes ==
    << [id |-> "crash_001",
        title |-> "Invalid image data. Error thrown.",
        subtitle |-> "cached_network_image/src/image_provider/",
        affected_users |-> 43,
        affected_sessions |-> 598,
        stack_trace |-> << "Exception: Invalid image data. Error thrown.",
                           "ImageLoader.loadImageAsync.<fn>",
                           "io.flutter.plugins.firebase.crashlytics.FlutterError",
                           "package:cached_network_image/src/image_provider/",
                           "com.aichatsy.app" >>,
        device_info |-> [platform |-> "android", model |-> "various",
                         os_version |-> "Android 12+"],
        app_info |-> [version |-> "1.3.5", build_number |-> "106",
                      package_name |-> "com.aichatsy.app"]],
       [id |-> "crash_002",
        title |-> "Flutter initialization error",
        subtitle |-> "main.dart:130",
        affected_users |-> 15,
        affected_sessions |-> 45,
        stack_trace |-> << "Flutter initialization error",
                           "package:chatsy/main.dart:130",
                           "com.aichatsy.app" >>,
        device_info |-> [platform |-> "android", model |-> "various",
                         os_version |-> "Android 12+"],
        app_info |-> [version |-> "1.3.5", build_number |-> "106",
                      package_name |-> "com.aichatsy.app"]] >>

\* ChatSYCrashManager._calculate_priority_score
manager_calculate_priority_score(issue) ==
    LET score ==
            (IF issue.affected_users >= 1000 THEN 40
             ELSE IF issue.affected_users >= 100 THEN 30
             ELSE IF issue.affected_users >= 10 THEN 20
             ELSE 10)
            + Get([critical |-> 30, high |-> 20, medium |-> 10, low |-> 5],
                  issue.severity, 0)
            + (IF issue.category \in {"memory", "flutter_framework", "native_plugin"}
               THEN 25 ELSE 0)
    IN  IF score > 100 THEN 100 ELSE score

\* ChatSYCrashManager._generate_health_metrics
generate_health_metrics ==
    [crash_free_users |-> FDec[8407, 100], crash_free_sessions |-> FDec[8506, 100],
     total_crashes |-> 812, unique_issues |-> 2, health_score |-> FDec[84, 100],
     trend |-> "improving", critical_issues |-> 0, high_priority_issues |-> 2,
     medium_priority_issues |-> 0, low_priority_issues |-> 0]

\* The loop of _analyze_current_crashes over the crashes i..: the rows as
\* [value |-> rows], or the exception that ends it
RECURSIVE analyze_current_crashes(_, _, _, _)
analyze_current_crashes(crash_feed, i, t, seed) ==
    IF i > Len(crash_feed) THEN [value |-> <<>>]
    ELSE The({ IF Raised(found) THEN found
               ELSE The({ IF Raised(rest) THEN rest
                          ELSE [value |->
                                   << [analysis |-> found, crash_issue |-> issue,
                                       priority_score |->
                                           manager_calculate_priority_score(issue)] >>
                                   \o rest.value] :
                          issue \in {analyze_crash_issue(crash_feed[i], seed)},
                          rest \in {analyze_current_crashes(crash_feed, i + 1, t, seed)} }) :
               found \in {analyze_crash_log(crash_feed[i], t)} })

\* FirebaseCrashlyticsBot._initialize_crash_fix_strategies: the fixer of a
\* category, by the fixer_type its apply_fix returns
crash_fix_strategies ==
    [image_loading     |-> "ImageLoadingCrashFixer",
     network           |-> "NetworkCrashFixer",
     memory            |-> "MemoryCrashFixer",
     ui_rendering      |-> "UIRenderingCrashFixer",
     data_parsing      |-> "DataParsingCrashFixer",
     authentication    |-> "AuthenticationCrashFixer",
     storage           |-> "StorageCrashFixer",
     third_party       |-> "ThirdPartyCrashFixer",
     native_plugin     |-> "NativePluginCrashFixer",
     flutter_framework |-> "FlutterFrameworkCrashFixer"]

\* The apply_fix of the ten fixers of firebase_crashlytics_bot.py
apply_fix(fixer_type) == [fixer_type |-> fixer_type, status |-> "completed"]

\* FirebaseCrashlyticsBot.apply_crash_fixes
bot_apply_crash_fixes(issue) ==
    IF issue.category \in DOMAIN crash_fix_strategies
    THEN apply_fix(crash_fix_strategies[issue.category])
    ELSE [status |-> "error",
          message |-> <<"No fixer available for ", issue.category>>,
          fixes_applied |-> <<>>,
          errors |-> << <<"Unknown crash category: ", issue.category>> >>]

\* CrashFixer.fix_image_loading_crashes, fix_network_crashes and
\* fix_memory_crashes, which write to the project's files: errors holds what
\* failed
crash_fixer_fix(fixer_type, errors) ==
    [fixer_type |-> fixer_type, errors |-> errors, success |-> Len(errors) = 0]

\* The errors of a CrashFixer run: none, or an exception of the file system
FixerErrors == { <<>>, <<"Exception during fix">> }

\* ChatSYCrashManager._apply_crash_fixes; errors[c] is what went wrong when
\* the CrashFixer fix of category c ran
manager_apply_crash_fixes(crash_analysis, errors) ==
    LET crash_categories ==
            distinct([i \in DOMAIN crash_analysis |-> crash_analysis[i].crash_issue.category])
        first(category) ==
            crash_analysis[CHOOSE i \in DOMAIN crash_analysis :
                               /\ crash_analysis[i].crash_issue.category = category
                               /\ \A j \in 1..(i - 1) :
                                      crash_analysis[j].crash_issue.category # category]
                .crash_issue
        fix(category) ==
            IF category = "image_loading"
            THEN crash_fixer_fix("ImageLoadingCrashFixer", errors[category])
            ELSE IF category = "network"
            THEN crash_fixer_fix("NetworkCrashFixer", errors[category])
            ELSE IF category = "memory"
            THEN crash_fixer_fix("MemoryCrashFixer", errors[category])
            ELSE bot_apply_crash_fixes(first(category))
    IN  [k \in DOMAIN crash_categories |->
             [key |-> crash_categories[k], fix |-> fix(crash_categories[k])]]

\* ChatSYCrashManager._generate_recommendations
manager_generate_recommendations(crash_analysis, fixes) ==
    LET titles(severity) ==
            [k \in DOMAIN SelectSeq(crash_analysis,
                                    LAMBDA d : d.crash_issue.severity = severity) |->
                 <<"   - ", SelectSeq(crash_analysis,
                                      LAMBDA d : d.crash_issue.severity = severity)[k]
                                .crash_issue.title>>]
        failed_fixes == SelectSeq(fixes, LAMBDA f : ~Get(f.fix, "success", FALSE))
    IN  (IF titles("critical") # <<>>
         THEN << <<"CRITICAL: Fix critical crashes immediately">> >> \o titles("critical")
         ELSE <<>>)
        \o (IF titles("high") # <<>>
            THEN << <<"HIGH PRIORITY: Address high-priority crashes within 24 hours">> >>
                 \o titles("high")
            ELSE <<>>)
        \o (IF failed_fixes # <<>>
            THEN << <<"MEDIUM: Address failed fixes">> >>
                 \o [k \in DOMAIN failed_fixes |->
                        <<"   - ", Get(failed_fixes[k].fix, "fixer_type", "Unknown"),
                          " fix failed">>]
            ELSE <<>>)
        \o << <<"Test all applied fixes thoroughly">>,
              <<"Run crash reproduction tests">>,
              <<"Deploy fixes to staging environment first">>,
              <<"Monitor Firebase Crashlytics for improvements">>,
              <<"Implement continuous crash monitoring">>,
              <<"Set up crash-free user rate alerts">> >>

(***************************************************************************)
(* PerformanceDashboard.  A metrics dict is the sequence of its items      *)
(* [name, value] in the order of insertion.  d is the dashboard with its   *)
(* database: the lists alerts and trends of the object, the rows of the    *)
(* tables performance_metrics, performance_alerts and performance_trends   *)
(* in the order of their ids, and sqlite_sequence, the largest id that the *)
(* AUTOINCREMENT key of performance_alerts has given out.  The clock is    *)
(* read in whole seconds: the fraction of time.time() is stored and never  *)
(* computed with, and of rows of one second the later inserted is the      *)
(* later.  A change_percentage is [negative, abs], its sign and its        *)
(* magnitude.  A line of text is the sequence of its pieces.               *)
(***************************************************************************)

\* metrics.get(name, default)
metric_get(metrics, name, default) ==
    IF \E i \in DOMAIN metrics : metrics[i].name = name
    THEN metrics[CHOOSE i \in DOMAIN metrics : metrics[i].name = name].value
    ELSE default

\* thresholds of _check_performance_alerts
thresholds ==
    [startup_time      |-> [critical |-> FDec[50, 10], warning |-> FDec[30, 10]],
     memory_usage      |-> [critical |-> FDec[2000, 10], warning |-> FDec[1500, 10]],
     battery_drain     |-> [critical |-> FDec[80, 10], warning |-> FDec[50, 10]],
     ui_fps            |-> [critical |-> FDec[300, 10], warning |-> FDec[450, 10]],
     network_latency   |-> [critical |-> FDec[10000, 10], warning |-> FDec[5000, 10]],
     image_load_time   |-> [critical |-> FDec[30, 10], warning |-> FDec[20, 10]],
     crash_rate        |-> [critical |-> FDec[50, 10], warning |-> FDec[20, 10]],
     user_satisfaction |-> [critical |-> FDec[5, 10], warning |-> FDec[7, 10]]]

\* f"{x:.2f}" of the values and thresholds that alerts are made of
Fixed2 ==
    FDec[600, 10] :> "60.00"
    @@ FDec[10, 10] :> "1.00"
    @@ FDec[60, 10] :> "6.00"
    @@ FDec[35, 10] :> "3.50"
    @@ FDec[300, 10] :> "30.00"
    @@ FDec[5, 10] :> "0.50"
    @@ FDec[50, 10] :> "5.00"
    @@ FDec[30, 10] :> "3.00"

\* PerformanceDashboard._create_alert at the time t
create_alert(d, metric_name, current_value, threshold_value, severity, t) ==
    LET alert ==
            [alert_id        |-> <<metric_name, "_", t>>,
             timestamp       |-> t,
             alert_type      |-> "performance_threshold",
             severity        |-> severity,
             message         |-> <<metric_name, " exceeded ", severity, " threshold: ",
                                   Fixed2[current_value], " > ", Fixed2[threshold_value]>>,
             metric_name     |-> metric_name,
             current_value   |-> current_value,
             threshold_value |-> threshold_value,
             resolved        |-> FALSE]
    IN  [d EXCEPT
            !.performance_alerts =
                SelectSeq(@, LAMBDA row : row.alert_id # <<metric_name, "_", t>>)
                \o <<[id |-> d.sqlite_sequence + 1] @@ alert>>,
            !.sqlite_sequence = @ + 1,
            !.alerts = Append(@, alert)]

\* PerformanceDashboard._check_performance_alerts: the loop over the items i..
RECURSIVE check_performance_alerts(_, _, _, _)
check_performance_alerts(d, metrics, i, t) ==
    IF i > Len(metrics) THEN d
    ELSE IF metrics[i].name \notin DOMAIN thresholds
    THEN check_performance_alerts(d, metrics, i + 1, t)
    ELSE IF FLe(thresholds[metrics[i].name].critical, metrics[i].value)
    THEN check_performance_alerts(
             create_alert(d, metrics[i].name, metrics[i].value,
                          thresholds[metrics[i].name].critical, "critical", t),
             metrics, i + 1, t)
    ELSE IF FLe(thresholds[metrics[i].name].warning, metrics[i].value)
    THEN check_performance_alerts(
             create_alert(d, metrics[i].name, metrics[i].value,
                          thresholds[metrics[i].name].warning, "warning", t),
             metrics, i + 1, t)
    ELSE check_performance_alerts(d, metrics, i + 1, t)

\* The columns that the query of _update_performance_trends averages
trend_metrics ==
    {"startup_time", "memory_usage", "battery_drain", "ui_fps", "network_latency",
     "image_load_time", "crash_rate", "user_satisfaction"}

\* AVG(value) over rows[i..] after sum over count rows
RECURSIVE column_avg(_, _, _, _, _)
column_avg(rows, name, i, sum, count) ==
    IF i > Len(rows) THEN FDiv[sum, FInt[count]]
    ELSE column_avg(rows, name, i + 1, FAdd[sum, rows[i][name]], count + 1)

\* The trend of a metric whose average of the last 24 hours is previous_value
performance_trend(metric_name, current_value, previous_value) ==
    The({ [metric_name       |-> metric_name,
           time_period       |-> "24h",
           current_value     |-> current_value,
           previous_value    |-> previous_value,
           trend_direction   |-> IF FLt(FInt[5], change.abs)
                                 THEN (IF change.negative THEN "improving"
                                       ELSE "degrading")
                                 ELSE "stable",
           change_percentage |-> change] :
          change \in {IF previous_value = FZero
                      THEN [negative |-> FALSE, abs |-> FZero]
                      ELSE IF FLt(current_value, previous_value)
                      THEN [negative |-> TRUE,
                            abs |-> FMul[FDiv[FSub[previous_value, current_value],
                                              previous_value], FInt[100]]]
                      ELSE [negative |-> FALSE,
                            abs |-> FMul[FDiv[FSub[current_value, previous_value],
                                              previous_value], FInt[100]]]} })

\* PerformanceDashboard._update_performance_trends: the loop over the items
\* i.., after the query on rows, the metrics of the last 24 hours
RECURSIVE update_performance_trends(_, _, _, _, _)
update_performance_trends(d, rows, metrics, i, t) ==
    IF i > Len(metrics) THEN d
    ELSE IF metrics[i].name \in trend_metrics /\ rows # <<>>
    THEN The({ update_performance_trends(
                   [d EXCEPT !.performance_trends =
                                 Append(@, [id |-> Len(@) + 1, timestamp |-> t] @@ trend),
                             !.trends = Append(@, trend)],
                   rows, metrics, i + 1, t) :
               trend \in {performance_trend(metrics[i].name, metrics[i].value,
                                            column_avg(rows, metrics[i].name, 1,
                                                       FZero, 0))} })
    ELSE update_performance_trends(d, rows, metrics, i + 1, t)

\* PerformanceDashboard.record_performance_metric at the time t
record_performance_metric(d, metrics, t) ==
    The({ update_performance_trends(
              check_performance_alerts(recorded, metrics, 1, t),
              SelectSeq(recorded.performance_metrics,
                        LAMBDA row : row.timestamp > t - 86400),
              metrics, 1, t) :
          recorded \in {[d EXCEPT !.performance_metrics =
              Append(@, [id                  |-> Len(@) + 1,
                         timestamp           |-> t,
                         startup_time        |-> metric_get(metrics, "startup_time", FZero),
                         memory_usage        |-> metric_get(metrics, "memory_usage", FZero),
                         battery_drain       |-> metric_get(metrics, "battery_drain", FZero),
                         ui_fps              |-> metric_get(metrics, "ui_fps", F_60_0),
                         network_latency     |-> metric_get(metrics, "network_latency", FZero),
                         image_load_time     |-> metric_get(metrics, "image_load_time", FZero),
                         database_query_time |->
                             metric_get(metrics, "database_query_time", FZero),
                         crash_rate          |-> metric_get(metrics, "crash_rate", FZero),
                         user_satisfaction   |->
                             metric_get(metrics, "user_satisfaction", F_1_0)])]} })

\* The points _calculate_overall_health adds for a metric where lower is
\* better: 1, 0.7, 0.4 or nothing
points_lower(value, full, good, fair) ==
    IF FLe(value, full) THEN F_1
    ELSE IF FLe(value, good) THEN FDec[7, 10]
    ELSE IF FLe(value, fair) THEN FDec[4, 10]
    ELSE FZero

\* The points for a metric where higher is better
points_higher(value, full, good, fair) ==
    IF FLe(full, value) THEN F_1
    ELSE IF FLe(good, value) THEN FDec[7, 10]
    ELSE IF FLe(fair, value) THEN FDec[4, 10]
    ELSE FZero

\* The points of the seven metrics that count, in the order they are added
health_points(metrics) ==
    << points_lower(metrics.startup_time, FDec[20, 10], FDec[30, 10], FDec[50, 10]),
       points_lower(metrics.memory_usage, FInt[100], FInt[150], FInt[200]),
       points_lower(metrics.battery_drain, FInt[3], FInt[5], FInt[8]),
       points_higher(metrics.ui_fps, FInt[60], FInt[45], FInt[30]),
       points_lower(metrics.network_latency, FInt[200], FInt[500], FInt[1000]),
       points_lower(metrics.crash_rate, FInt[1], FInt[2], FInt[5]),
       points_higher(metrics.user_satisfaction, FDec[9, 10], FDec[7, 10], FDec[5, 10]) >>

\* PerformanceDashboard._calculate_overall_health; metrics is a row of
\* performance_metrics, <<>> for None
calculate_overall_health(metrics, active_alerts) ==
    IF metrics = <<>> THEN "unknown"
    ELSE The({ IF FLe(FDec[8, 10], health_score) THEN "excellent"
               ELSE IF FLe(FDec[6, 10], health_score) THEN "good"
               ELSE IF FLe(FDec[4, 10], health_score) THEN "needs_attention"
               ELSE "critical" :
               health_score \in
                   { The({ IF active_alerts > 5 THEN FMul[normal, FDec[5, 10]]
                           ELSE IF active_alerts > 2 THEN FMul[normal, FDec[7, 10]]
                           ELSE normal :
                           normal \in
                               { The({ FDiv[FAdd[FAdd[FAdd[FAdd[FAdd[FAdd[p[1], p[2]],
                                            p[3]], p[4]], p[5]], p[6]], p[7]], FInt[7]] :
                                       p \in {health_points(metrics)} }) } }) } })

\* PerformanceDashboard.get_performance_summary at the time t
get_performance_summary(d, t) ==
    LET rows == d.performance_metrics
        latest_metrics ==
            IF rows = <<>> THEN <<>>
            ELSE rows[CHOOSE i \in DOMAIN rows :
                          \A j \in DOMAIN rows :
                              \/ rows[j].timestamp < rows[i].timestamp
                              \/ rows[j].timestamp = rows[i].timestamp /\ j <= i]
        active_alerts ==
            Cardinality({i \in DOMAIN d.performance_alerts :
                             ~d.performance_alerts[i].resolved})
        recent == {i \in DOMAIN d.performance_trends :
                       d.performance_trends[i].timestamp > t - 86400}
    IN  [timestamp      |-> t,
         latest_metrics |-> latest_metrics,
         active_alerts  |-> active_alerts,
         trend_summary  |->
             [name \in {d.performance_trends[i].metric_name : i \in recent} |->
                 [direction \in {d.performance_trends[i].trend_direction :
                                     i \in {k \in recent :
                                                d.performance_trends[k].metric_name = name}} |->
                     Cardinality({i \in recent :
                                      /\ d.performance_trends[i].metric_name = name
                                      /\ d.performance_trends[i].trend_direction
                                             = direction})]],
         overall_health |-> calculate_overall_health(latest_metrics, active_alerts)]

(***************************************************************************)
(* BuildHealthMonitor.  The errors of a build result are a text;           *)
(* InErrors[text] is the set of the issue types s with s in text.          *)
(***************************************************************************)
InErrors ==
    "" :> {}
    @@ "xcodebuild timed out" :> {}
    @@ "code_signing identity not found" :> {"code_signing"}
    @@ "cocoapods install failed" :> {"cocoapods"}
    @@ "flutter build failed" :> {"flutter"}
    @@ "flutter: cocoapods and code_signing failed" :>
           {"code_signing", "cocoapods", "flutter"}

\* track_build_metrics that starts the issue counts anew after a success
track_build_metrics_anew(build_metrics, build_result) ==
    IF Get(build_result, "success", FALSE)
    THEN [build_metrics EXCEPT !.build_success_rate = @ + 1,
                               !.code_signing_issues = 0,
                               !.cocoapods_issues = 0,
                               !.flutter_issues = 0]
    ELSE [build_metrics EXCEPT
             !.code_signing_issues =
                 IF "code_signing" \in InErrors[Get(build_result, "errors", "")]
                 THEN @ + 1 ELSE @,
             !.cocoapods_issues =
                 IF "cocoapods" \in InErrors[Get(build_result, "errors", "")]
                 THEN @ + 1 ELSE @,
             !.flutter_issues =
                 IF "flutter" \in InErrors[Get(build_result, "errors", "")]
                 THEN @ + 1 ELSE @]

\* BuildHealthMonitor.track_build_metrics: self.metrics after the call
track_build_metrics(build_metrics, build_result) ==
    IF Get(build_result, "success", FALSE)
    THEN [build_metrics EXCEPT !.build_success_rate = @ + 1]
    ELSE [build_metrics EXCEPT
             !.code_signing_issues =
                 IF "code_signing" \in InErrors[Get(build_result, "errors", "")]
                 THEN @ + 1 ELSE @,
             !.cocoapods_issues =
                 IF "cocoapods" \in InErrors[Get(build_result, "errors", "")]
                 THEN @ + 1 ELSE @,
             !.flutter_issues =
                 IF "flutter" \in InErrors[Get(build_result, "errors", "")]
                 THEN @ + 1 ELSE @]

\* BuildHealthMonitor._calculate_health_score; max(0.0, 1.0 - x) is 0.0
\* where x is above 1.0
calculate_health_score(build_metrics) ==
    LET total_issues == build_metrics.code_signing_issues
                        + build_metrics.cocoapods_issues
                        + build_metrics.flutter_issues
    IN  IF total_issues = 0 THEN F_1_0
        ELSE The({ IF FLt(F_1_0, x) THEN FZero ELSE FSub[F_1_0, x] :
                   x \in {FMul[FInt[total_issues], F_0_1]} })

(***************************************************************************)
(* The state.  program is the script that is run (each has its own main),  *)
(* crash_data the event handed to its analyzer, analysis what              *)
(* CrashAnalyzer.analyze_crash_log last returned for it and crash_issue    *)
(* what FirebaseCrashlyticsBot.analyze_crash_issue last returned; now is   *)
(* the clock datetime.now() reads and hashseed the hash seed of the        *)
(* running interpreter.  performance_data is the snapshot                  *)
(* handed to AppPerformanceBot, issues what analyze_app_performance        *)
(* returned for it and performance_score what                              *)
(* _calculate_performance_score returned for issues.                       *)
(*                                                                         *)
(* For the host that runs analyze_crash_log on parallel workers with one   *)
(* CrashAnalyzer: analysis_patterns and crash_database are the attributes  *)
(* of the analyzer, pc[w] is the statement worker w's call is at,          *)
(* frames[f] the local variables of the call whose frame is f, held[w]     *)
(* the event worker w passed and the time its call read where the event    *)
(* has no timestamp, returned[w] what its call returned.                   *)
(*                                                                         *)
(* For ChatSYCrashManager: crashes is the crash data that                  *)
(* _analyze_current_crashes is given, results the dict that                *)
(* run_comprehensive_crash_analysis fills, or the exception that left it,  *)
(* and step the step of the run that comes next.                           *)
(*                                                                         *)
(* For PerformanceDashboard: dashboard is the object with its database,    *)
(* and summary what get_performance_summary last returned.                 *)
(*                                                                         *)
(* For BuildHealthMonitor: monitor is the object, with its attribute       *)
(* metrics.                                                                *)
(***************************************************************************)
VARIABLES program, crash_data, now, hashseed, analysis, crash_issue,
          performance_data, issues, performance_score,
          analysis_patterns, crash_database, pc, frames, held, returned,
          crashes, results, step, dashboard, summary, monitor

vars == <<program, crash_data, now, hashseed, analysis, crash_issue,
          performance_data, issues, performance_score,
          analysis_patterns, crash_database, pc, frames, held, returned,
          crashes, results, step, dashboard, summary, monitor>>

manager_vars == <<crashes, results, step>>

dashboard_vars == <<dashboard, summary>>

\* The variables of the tools that run apart from the analyzers' scripts
tool_vars == <<manager_vars, dashboard_vars, monitor>>

host_vars == <<analysis_patterns, crash_database, pc, frames, held, returned>>

crash_vars == <<crash_data, now, hashseed, analysis, crash_issue>>

perf_vars == <<performance_data, issues, performance_score>>

\* Nothing returned yet
NotRun == [not_run |-> TRUE]

Ran(r) == "not_run" \notin DOMAIN r

\* What a call of the performance bot returned
Value(v) == [value |-> v]

\* A call that returned a value
Returned(r) == Ran(r) /\ ~Raised(r)

MaxLines == 2

MaxClock == 1

MaxMetrics == 2

MaxWorkers == 2

MaxCrashes == 2

MaxRecords == 2

MaxBuilds == 3

MaxIssues == 4

Workers == 1..MaxWorkers

\* frame with one frame for the calls of all workers
frame_shared(w) == 1

\* The frame that holds the local variables of worker w's call: its own
frame(w) == w

AppFrames == [i \in 1..5 |-> "com.aichatsy.app"]

\* The lines the short traces are made of
ShortLines ==
    { "com.aichatsy.app",
      "fatal crash: error, failed, exception",
      "Exception: Invalid image data",
      "cached_network_image/src/...",
      "OutOfMemoryError",
      "PlatformException(error, MethodChannel)" }

\* Short traces, and every line on top of five application frames
StackTraces ==
    UNION {[1..n -> ShortLines] : n \in 0..MaxLines}
        \cup {<<l>> \o AppFrames : l \in Lines}

AffectedUsers == {0, 1, 10, 100, 1000}

\* The rest of an event: device_info, app_info and timestamp, each optional
EventShapes ==
    { <<>>,
      [device_info |-> [platform |-> "android", model |-> "samsung galaxy s21",
                        os_version |-> "Android 7", memory |-> "1GB"],
       app_info    |-> [version |-> "1.3.5", build_number |-> "106",
                        package_name |-> "com.aichatsy.app"],
       timestamp   |-> 0],
      [device_info |-> [platform |-> "ios", os_version |-> "iOS 16.0",
                        memory |-> "8GB"],
       app_info    |-> [version |-> "2.0.1", build_number |-> "1200"],
       timestamp   |-> 0],
      [device_info |-> [memory |-> "N/A GB"]],
      [app_info    |-> [version |-> "1.x"], timestamp |-> 0],
      [device_info |-> [platform |-> "android", os_version |-> "unknown",
                        memory |-> "512MB", patterns |-> <<"low_memory_device">>]] }

CrashEvents ==
    { [stack_trace |-> t, affected_users |-> u] @@ shape :
          t \in StackTraces, u \in AffectedUsers, shape \in EventShapes }

MetricValues ==
    [startup_time    |-> {FDec[20, 10], FDec[42, 10], FDec[60, 10]},
     memory_usage    |-> {FDec[1000, 10], FDec[1200, 10], FDec[2500, 10]},
     battery_drain   |-> {FDec[30, 10], FDec[50, 10], FDec[90, 10]},
     ui_fps          |-> {FDec[600, 10], FDec[540, 10], FDec[300, 10],
                          FDec[299, 10], FDec[250, 10], FZero},
     network_latency |-> {FDec[2000, 10], FDec[3000, 10], FDec[8000, 10]},
     image_load_time |-> {FDec[10, 10], FDec[12, 10], FDec[21, 10]}]

\* The snapshots that hold at most MaxMetrics metrics
Snapshots ==
    UNION { {d \in [keys -> UNION {MetricValues[k] : k \in keys}] :
                 \A k \in keys : d[k] \in MetricValues[k]} :
            keys \in {ks \in SUBSET DOMAIN MetricValues : Cardinality(ks) <= MaxMetrics} }

NoCrash ==
    /\ crash_data = <<>>
    /\ now = 0
    /\ hashseed = "seed_a"
    /\ analysis = NotRun
    /\ crash_issue = NotRun

NoPerformance ==
    /\ performance_data = <<>>
    /\ issues = NotRun
    /\ performance_score = NotRun

\* No run of the manager
NoManager ==
    /\ crashes = <<>>
    /\ results = NotRun
    /\ step = 0

\* No dashboard
NoDashboard ==
    /\ dashboard = <<>>
    /\ summary = NotRun

\* No monitor
NoMonitor == monitor = <<>>

\* None of the tools runs
NoTools == NoManager /\ NoDashboard /\ NoMonitor

\* The local variables of analyze_crash_log before any is assigned
NoFrame ==
    [crash_data |-> <<>>, analysis |-> <<>>, stack_analysis |-> <<>>,
     device_analysis |-> <<>>, category |-> "", severity |-> "",
     root_cause |-> <<>>, impact |-> <<>>]

\* CrashAnalyzer.__init__, and workers that have called nothing
InitHost ==
    /\ analysis_patterns = load_analysis_patterns
    /\ crash_database = <<>>
    /\ pc = [w \in Workers |-> "idle"]
    /\ frames = [f \in Workers |-> NoFrame]
    /\ held = [w \in Workers |-> <<>>]
    /\ returned = [w \in Workers |-> NotRun]

\* One of the two crash scripts is started on an event
InitCrash ==
    /\ program \in {"crash_analyzer", "firebase_crashlytics_bot"}
    /\ crash_data \in CrashEvents
    /\ now = 0
    /\ hashseed = "seed_a"
    /\ analysis = NotRun
    /\ crash_issue = NotRun
    /\ NoPerformance
    /\ InitHost
    /\ NoTools

InitPerformance ==
    /\ program = "app_performance_bot"
    /\ performance_data \in Snapshots
    /\ issues = NotRun
    /\ performance_score = NotRun
    /\ NoCrash
    /\ InitHost
    /\ NoTools

\* CrashAnalyzer.analyze_crash_log(crash_data)
AnalyzeCrashLog ==
    /\ program = "crash_analyzer"
    /\ analysis' = analyze_crash_log(crash_data, now)
    /\ UNCHANGED <<program, tool_vars, crash_data, now, hashseed, crash_issue, perf_vars, host_vars>>

\* FirebaseCrashlyticsBot.analyze_crash_issue(crash_data)
AnalyzeCrashIssue ==
    /\ program = "firebase_crashlytics_bot"
    /\ crash_issue' = analyze_crash_issue(crash_data, hashseed)
    /\ UNCHANGED <<program, tool_vars, crash_data, now, hashseed, analysis, perf_vars, host_vars>>

\* Time passes between two calls of analyze_crash_log
Tick ==
    /\ program = "crash_analyzer"
    /\ now < MaxClock
    /\ now' = now + 1
    /\ UNCHANGED <<program, tool_vars, crash_data, hashseed, analysis, crash_issue, perf_vars, host_vars>>

\* The bot is started again in a new interpreter process, to analyze the
\* same event; the finding already reported stays with its reader
Restart ==
    /\ program = "firebase_crashlytics_bot"
    /\ hashseed' \in HashSeeds \ {hashseed}
    /\ UNCHANGED <<program, tool_vars, crash_data, now, analysis, crash_issue, perf_vars, host_vars>>

\* AppPerformanceBot.analyze_app_performance(performance_data)
AnalyzeAppPerformance ==
    /\ issues' = Value(analyze_app_performance(performance_data))
    /\ performance_score' = NotRun
    /\ UNCHANGED <<program, tool_vars, performance_data, crash_vars, host_vars>>

\* AppPerformanceBot._calculate_performance_score(issues)
CalculatePerformanceScore ==
    /\ Ran(issues)
    /\ performance_score' = Value(calculate_performance_score(issues.value))
    /\ UNCHANGED <<program, tool_vars, performance_data, issues, crash_vars, host_vars>>

\* The events the workers are handed: the image scenario on a low-memory
\* device, an event without timestamp, and two whose device and app strings
\* cannot be parsed
HostEvents ==
    { [stack_trace |-> <<"Exception: Invalid image data", "cached_network_image/src/...">>,
       affected_users |-> 1000,
       device_info |-> [platform |-> "android", model |-> "samsung galaxy s21",
                        os_version |-> "Android 7", memory |-> "1GB"],
       app_info    |-> [version |-> "1.3.5", build_number |-> "106",
                        package_name |-> "com.aichatsy.app"],
       timestamp   |-> 0],
      [stack_trace |-> <<"OutOfMemoryError">>, affected_users |-> 100],
      [stack_trace |-> <<>>, affected_users |-> 0,
       device_info |-> [memory |-> "N/A GB"], timestamp |-> 0],
      [stack_trace |-> <<"main.dart:130">>, affected_users |-> 10,
       app_info |-> [version |-> "1.x"], timestamp |-> 0] }

\* A call of worker w is under way
InCall(w) == pc[w] \notin {"idle", "done"}

\* Worker w takes a step of its call: to statement next, with locals new
StepTo(w, next, new) ==
    /\ pc' = [pc EXCEPT ![w] = next]
    /\ frames' = [frames EXCEPT ![frame(w)] = new]
    /\ UNCHANGED <<program, tool_vars, crash_vars, perf_vars, analysis_patterns,
                   crash_database, held>>

\* An exception leaves worker w's call
Propagate(w, exc) ==
    /\ returned' = [returned EXCEPT ![w] = exc]
    /\ StepTo(w, "done", frames[frame(w)])

\* Worker w calls analyze_crash_log(event): the analysis dict is built
Call(w) ==
    /\ program = "parallel_host"
    /\ pc[w] = "idle"
    /\ \E event \in HostEvents :
           /\ held' = [held EXCEPT ![w] = [crash_data |-> event,
                                         t |-> Get(event, "timestamp", now)]]
           /\ pc' = [pc EXCEPT ![w] = "stack_trace"]
           /\ frames' = [frames EXCEPT ![frame(w)] =
                  [NoFrame EXCEPT
                      !.crash_data = event,
                      !.analysis =
                          [crash_id    |-> Get(event, "id", "unknown"),
                           title       |-> Get(event, "title", ""),
                           subtitle    |-> Get(event, "subtitle", ""),
                           stack_trace |-> Get(event, "stack_trace", <<>>),
                           device_info |-> Get(event, "device_info", <<>>),
                           app_info    |-> Get(event, "app_info", <<>>),
                           timestamp   |-> Get(event, "timestamp", now),
                           analysis_results |-> <<>>]]]
    /\ UNCHANGED <<program, tool_vars, crash_vars, perf_vars, analysis_patterns,
                   crash_database, returned>>

\* The locals of worker w's call with analysis["analysis_results"][key] = value
WithResult(w, key, value) ==
    [frames[frame(w)] EXCEPT !.analysis.analysis_results = (key :> value) @@ @]

\* stack_analysis = self._analyze_stack_trace(...)
StackTraceStep(w) ==
    /\ pc[w] = "stack_trace"
    /\ \E stack_analysis \in
              {analyze_stack_trace_of(analysis_patterns,
                   Get(frames[frame(w)].crash_data, "stack_trace", <<>>))} :
           StepTo(w, "device",
                  [WithResult(w, "stack_trace", stack_analysis)
                      EXCEPT !.stack_analysis = stack_analysis])
    /\ UNCHANGED returned

\* device_analysis = self._analyze_device_info(...)
DeviceStep(w) ==
    /\ pc[w] = "device"
    /\ \E device_analysis \in
              {analyze_device_info(Get(frames[frame(w)].crash_data, "device_info", <<>>))} :
           IF Raised(device_analysis) THEN Propagate(w, device_analysis)
           ELSE /\ StepTo(w, "app",
                          [WithResult(w, "device", device_analysis)
                              EXCEPT !.device_analysis = device_analysis])
                /\ UNCHANGED returned

\* app_analysis = self._analyze_app_info(...)
AppStep(w) ==
    /\ pc[w] = "app"
    /\ \E app_analysis \in
              {analyze_app_info(Get(frames[frame(w)].crash_data, "app_info", <<>>))} :
           IF Raised(app_analysis) THEN Propagate(w, app_analysis)
           ELSE /\ StepTo(w, "category", WithResult(w, "app", app_analysis))
                /\ UNCHANGED returned

\* category = ...; severity = ...
CategoryStep(w) ==
    /\ pc[w] = "category"
    /\ \E category \in {determine_crash_category(frames[frame(w)].stack_analysis)},
          severity \in {determine_crash_severity(frames[frame(w)].crash_data,
                                                 frames[frame(w)].stack_analysis)} :
           StepTo(w, "root_cause",
                  [frames[frame(w)] EXCEPT
                      !.category = category,
                      !.severity = severity,
                      !.analysis.analysis_results =
                          ("category" :> category) @@ ("severity" :> severity) @@ @])
    /\ UNCHANGED returned

\* root_cause = self._generate_root_cause_analysis(...)
RootCauseStep(w) ==
    /\ pc[w] = "root_cause"
    /\ \E root_cause \in
              {generate_root_cause_analysis(frames[frame(w)].category,
                                            frames[frame(w)].stack_analysis,
                                            frames[frame(w)].device_analysis)} :
           StepTo(w, "impact",
                  [WithResult(w, "root_cause", root_cause) EXCEPT !.root_cause = root_cause])
    /\ UNCHANGED returned

\* impact = self._assess_crash_impact(...)
ImpactStep(w) ==
    /\ pc[w] = "impact"
    /\ \E impact \in
              {assess_crash_impact(frames[frame(w)].crash_data, frames[frame(w)].category,
                                   frames[frame(w)].severity)} :
           StepTo(w, "recommendations",
                  [WithResult(w, "impact", impact) EXCEPT !.impact = impact])
    /\ UNCHANGED returned

\* recommendations = self._generate_recommendations(...)
RecommendationsStep(w) ==
    /\ pc[w] = "recommendations"
    /\ StepTo(w, "return",
              WithResult(w, "recommendations",
                         generate_recommendations(frames[frame(w)].category,
                                                  frames[frame(w)].root_cause,
                                                  frames[frame(w)].impact)))
    /\ UNCHANGED returned

\* return analysis
Return(w) ==
    /\ pc[w] = "return"
    /\ returned' = [returned EXCEPT ![w] = frames[frame(w)].analysis]
    /\ StepTo(w, "done", frames[frame(w)])

\* The worker takes the finding and is free for the next event
NextEvent(w) ==
    /\ pc[w] = "done"
    /\ pc' = [pc EXCEPT ![w] = "idle"]
    /\ frames' = [frames EXCEPT ![frame(w)] = NoFrame]
    /\ held' = [held EXCEPT ![w] = <<>>]
    /\ returned' = [returned EXCEPT ![w] = NotRun]
    /\ UNCHANGED <<program, tool_vars, crash_vars, perf_vars, analysis_patterns, crash_database>>

\* Time passes while the workers run
TimePasses ==
    /\ program = "parallel_host"
    /\ now < MaxClock
    /\ now' = now + 1
    /\ UNCHANGED <<program, tool_vars, crash_data, hashseed, analysis, crash_issue, perf_vars,
                   host_vars>>

\* A host with one CrashAnalyzer and idle workers
InitParallel ==
    /\ program = "parallel_host"
    /\ NoCrash
    /\ NoPerformance
    /\ InitHost
    /\ NoTools

NextParallel ==
    \/ TimePasses
    \/ \E w \in Workers :
        \/ Call(w)
        \/ StackTraceStep(w)
        \/ DeviceStep(w)
        \/ AppStep(w)
        \/ CategoryStep(w)
        \/ RootCauseStep(w)
        \/ ImpactStep(w)
        \/ RecommendationsStep(w)
        \/ Return(w)
        \/ NextEvent(w)

SpecParallel == InitParallel /\ [][NextParallel]_vars

\* The events the crash feed can hold besides the two the script is written
\* with: one line of trace each, seen by 15 or by 1000 users, and one from
\* a device that reports no memory size
FeedEvents ==
    { [id |-> "crash_003", title |-> l, stack_trace |-> <<l>>, affected_users |-> u] :
          l \in Lines, u \in {15, 1000} }
        \cup { [id |-> "crash_004", title |-> "OutOfMemoryError",
                stack_trace |-> <<"OutOfMemoryError">>, affected_users |-> 15,
                device_info |-> [memory |-> "N/A GB"]] }

\* The crash data: what the script is written with, or what the feed of
\* Firebase Crashlytics that it stands for holds
CrashFeeds ==
    {current_crashes} \cup UNION {[1..n -> FeedEvents] : n \in 1..MaxCrashes}

\* ChatSYCrashManager.__init__ and the start of
\* run_comprehensive_crash_analysis
InitManager ==
    /\ program = "fix_chatsy_crashes"
    /\ crashes \in CrashFeeds
    /\ results = [crash_analysis |-> <<>>, fixes |-> <<>>, recommendations |-> <<>>,
                  health_metrics |-> <<>>]
    /\ step = 1
    /\ crash_data = <<>>
    /\ now = 0
    /\ hashseed \in HashSeeds
    /\ analysis = NotRun
    /\ crash_issue = NotRun
    /\ NoPerformance
    /\ InitHost
    /\ NoDashboard
    /\ NoMonitor

\* Step 1: results["crash_analysis"] = self._analyze_current_crashes()
AnalyzeCurrentCrashes ==
    /\ step = 1
    /\ \E rows \in {analyze_current_crashes(crashes, 1, now, hashseed)} :
           IF Raised(rows)
           THEN results' = rows /\ step' = 5
           ELSE results' = [results EXCEPT !.crash_analysis = rows.value] /\ step' = 2
    /\ UNCHANGED <<program, crashes, crash_vars, perf_vars, host_vars, dashboard_vars,
                   monitor>>

\* Step 2: results["fixes"] = self._apply_crash_fixes(results["crash_analysis"])
ApplyCrashFixes ==
    /\ step = 2
    /\ \E errors \in [{"image_loading", "network", "memory"} -> FixerErrors] :
           results' = [results EXCEPT
                          !.fixes = manager_apply_crash_fixes(results.crash_analysis, errors)]
    /\ step' = 3
    /\ UNCHANGED <<program, crashes, crash_vars, perf_vars, host_vars, dashboard_vars,
                   monitor>>

\* Step 3: results["health_metrics"] = self._generate_health_metrics()
GenerateHealthMetrics ==
    /\ step = 3
    /\ results' = [results EXCEPT !.health_metrics = generate_health_metrics]
    /\ step' = 4
    /\ UNCHANGED <<program, crashes, crash_vars, perf_vars, host_vars, dashboard_vars,
                   monitor>>

\* Step 4: results["recommendations"] = self._generate_recommendations(results)
GenerateRecommendations ==
    /\ step = 4
    /\ results' = [results EXCEPT
                       !.recommendations =
                           manager_generate_recommendations(results.crash_analysis,
                                                            results.fixes)]
    /\ step' = 5
    /\ UNCHANGED <<program, crashes, crash_vars, perf_vars, host_vars, dashboard_vars,
                   monitor>>

NextManager ==
    \/ AnalyzeCurrentCrashes
    \/ ApplyCrashFixes
    \/ GenerateHealthMetrics
    \/ GenerateRecommendations

\* The metrics a caller records: none, one or two of them, with a value on
\* each side of the thresholds; every value is a binary fraction, so that
\* the sums of the averages are exact
DashboardMetrics ==
    { <<>>,
      <<[name |-> "ui_fps", value |-> FDec[600, 10]]>>,
      <<[name |-> "ui_fps", value |-> FDec[250, 10]]>>,
      <<[name |-> "user_satisfaction", value |-> FDec[10, 10]]>>,
      <<[name |-> "user_satisfaction", value |-> FDec[25, 100]]>>,
      <<[name |-> "startup_time", value |-> FDec[60, 10]]>>,
      <<[name |-> "startup_time", value |-> FDec[35, 10]]>>,
      <<[name |-> "startup_time", value |-> FDec[20, 10]],
        [name |-> "ui_fps", value |-> FDec[600, 10]]>>,
      <<[name |-> "database_query_time", value |-> FDec[250, 10]]>> }

\* PerformanceDashboard.__init__ on a new database file
InitDashboard ==
    /\ program = "performance_dashboard"
    /\ dashboard = [alerts |-> <<>>, trends |-> <<>>, performance_metrics |-> <<>>,
                    performance_alerts |-> <<>>, performance_trends |-> <<>>,
                    sqlite_sequence |-> 0]
    /\ summary = NotRun
    /\ NoCrash
    /\ NoPerformance
    /\ InitHost
    /\ NoManager
    /\ NoMonitor

\* dashboard.record_performance_metric(metrics)
RecordPerformanceMetric ==
    /\ Len(dashboard.performance_metrics) < MaxRecords
    /\ \E metrics \in DashboardMetrics :
           dashboard' = record_performance_metric(dashboard, metrics, now)
    /\ UNCHANGED <<program, summary, crash_vars, perf_vars, host_vars, manager_vars,
                   monitor>>

\* dashboard.get_performance_summary()
GetPerformanceSummary ==
    /\ summary' = get_performance_summary(dashboard, now)
    /\ UNCHANGED <<program, dashboard, crash_vars, perf_vars, host_vars, manager_vars,
                   monitor>>

\* A second passes
SecondPasses ==
    /\ now < MaxClock
    /\ now' = now + 1
    /\ UNCHANGED <<program, crash_data, hashseed, analysis, crash_issue, perf_vars,
                   host_vars, tool_vars>>

NextDashboard == RecordPerformanceMetric \/ GetPerformanceSummary \/ SecondPasses

\* The results of a build: without a word on success, a success, with or
\* without the errors of an earlier attempt, and a failure with its errors
BuildResults ==
    { <<>>, [success |-> TRUE],
      [success |-> TRUE, errors |-> "flutter build failed"] }
        \cup { [success |-> FALSE, errors |-> text] : text \in DOMAIN InErrors }

\* BuildHealthMonitor.__init__
InitMonitor ==
    /\ program = "xcode_deploy_bot"
    /\ monitor = [metrics |-> [build_success_rate |-> 0, average_build_time |-> 0,
                               common_error_patterns |-> <<>>,
                               deployment_frequency |-> 0, code_signing_issues |-> 0,
                               cocoapods_issues |-> 0, flutter_issues |-> 0]]
    /\ NoCrash
    /\ NoPerformance
    /\ InitHost
    /\ NoManager
    /\ NoDashboard

\* monitor.track_build_metrics(build_result), while the counts are small
TrackBuildMetrics ==
    /\ \E build_result \in BuildResults :
           /\ monitor' = [monitor EXCEPT
                              !.metrics = track_build_metrics(@, build_result)]
           /\ monitor'.metrics.build_success_rate <= MaxBuilds
           /\ monitor'.metrics.code_signing_issues <= MaxIssues
           /\ monitor'.metrics.cocoapods_issues <= MaxIssues
           /\ monitor'.metrics.flutter_issues <= MaxIssues
    /\ UNCHANGED <<program, crash_vars, perf_vars, host_vars, manager_vars,
                   dashboard_vars>>

NextMonitor == TrackBuildMetrics

NextCrash == AnalyzeCrashLog \/ AnalyzeCrashIssue \/ Tick \/ Restart

NextPerformance == AnalyzeAppPerformance \/ CalculatePerformanceScore

Spec == InitCrash /\ [][NextCrash]_vars

SpecManager == InitManager /\ [][NextManager]_vars

SpecDashboard == InitDashboard /\ [][NextDashboard]_vars

SpecMonitor == InitMonitor /\ [][NextMonitor]_vars

SpecPerformance == InitPerformance /\ [][NextPerformance]_vars

(***************************************************************************)
(* What the claims speak of.                                               *)
(***************************************************************************)
Trace == Get(crash_data, "stack_trace", <<>>)

Users == Get(crash_data, "affected_users", 0)

Results == analysis.analysis_results

\* No category pattern is found in the event's stack trace
MatchesNothing ==
    \A i \in DOMAIN stack_trace_patterns :
        ~re_search(stack_trace_patterns[i].pattern, Trace)

Severities == {"critical", "high", "medium", "low"}

SeverityRank == [low |-> 0, medium |-> 1, high |-> 2, critical |-> 3]

RiskPatterns == {"low_memory_device", "old_android_version", "old_ios_version"}

\* The severity points of an event that matches nothing: those of its users,
\* of the critical keywords found and of a low_memory_device entry it carries
UnmatchedPoints ==
    (IF Users >= 1000 THEN 40
     ELSE IF Users >= 100 THEN 30
     ELSE IF Users >= 10 THEN 20
     ELSE IF Users >= 1 THEN 10
     ELSE 0)
    + 15 * Cardinality({k \in DOMAIN error_keywords :
                           /\ error_keywords[k].severity = "critical"
                           /\ text_contains(error_keywords[k].keyword, Trace)})
    + (IF Has(Get(Get(crash_data, "device_info", <<>>), "patterns", <<>>),
              "low_memory_device")
       THEN 10 ELSE 0)

C2_EmptyTraceUnknown ==
    (Returned(analysis) /\ Trace = <<>>) =>
        /\ Results.stack_trace.status = "no_stack_trace"
        /\ Results.stack_trace.patterns = <<>>
        /\ "patterns_found" \notin DOMAIN Results.stack_trace
        /\ Results.category = "unknown"

\* An event with no trace, no device and no app information has been analyzed
C2_Witness ==
    /\ Returned(analysis)
    /\ Trace = <<>>
    /\ "device_info" \notin DOMAIN crash_data
    /\ "app_info" \notin DOMAIN crash_data
    /\ Results.category = "unknown"

(***************************************************************************)
(* C3: the severity of every finding is one of critical, high, medium and  *)
(* low and its confidence lies in [0,1], for CrashAnalyzer                 *)
(* (root_cause.confidence, after the device adjustments) and for           *)
(* FirebaseCrashlyticsBot (confidence_score).                              *)
(***************************************************************************)
C3_SeverityAndConfidenceRange ==
    /\ Returned(analysis) =>
           /\ Results.severity \in Severities
           /\ FLe(FZero, Results.root_cause.confidence)
           /\ FLe(Results.root_cause.confidence, F_1)
    /\ Returned(crash_issue) =>
           /\ crash_issue.severity \in Severities
           /\ FLe(FZero, crash_issue.confidence_score)
           /\ FLe(crash_issue.confidence_score, F_1)

\* A finding whose confidence the device adjustments raised to the top of
\* the range
C3_Witness ==
    /\ Returned(analysis)
    /\ Results.root_cause.device_factors # <<>>
    /\ Results.root_cause.confidence = F_1
    /\ Results.severity = "low"

(***************************************************************************)
(* C4: of two events that differ only in that the second has more          *)
(* affected users, _determine_crash_severity gives the second at least the *)
(* point total of the first, and a tier that is not lower.                 *)
(***************************************************************************)
C4_SeverityMonotoneInUsers ==
    \A more \in AffectedUsers :
        more > Users =>
            LET second         == [crash_data EXCEPT !.affected_users = more]
                stack_analysis == analyze_stack_trace(Trace)
            IN  /\ severity_score(second, stack_analysis)
                       >= severity_score(crash_data, stack_analysis)
                /\ SeverityRank[determine_crash_severity(second, stack_analysis)]
                       >= SeverityRank[determine_crash_severity(crash_data,
                                                                stack_analysis)]

\* An event analyzed as low that is high with more users
C4_Witness ==
    /\ Returned(analysis)
    /\ Results.severity = "low"
    /\ \E more \in AffectedUsers :
           /\ more > Users
           /\ determine_crash_severity([crash_data EXCEPT !.affected_users = more],
                                       Results.stack_trace) = "high"

(***************************************************************************)
(* C5, as stated: two runs of analyze_crash_log, and of                    *)
(* FirebaseCrashlyticsBot.analyze_crash_issue, on the same input produce   *)
(* identical findings: equal category, severity, confidence, root causes,  *)
(* recommendations or suggested fixes in the same order, and every other   *)
(* result field equal.  The event never changes, so every result must      *)
(* equal the one before it.                                                *)
(***************************************************************************)
C5_Deterministic ==
    [][/\ (Ran(analysis) /\ Ran(analysis')) => analysis' = analysis
       /\ (Ran(crash_issue) /\ Ran(crash_issue')) => crash_issue' = crash_issue]_vars

(***************************************************************************)
(* C6: the recommendations of a finding contain no repeated action text    *)
(* (CrashAnalyzer._generate_recommendations), and its suggested fixes no   *)
(* repeated text (FirebaseCrashlyticsBot._generate_suggested_fixes).       *)
(***************************************************************************)
C6_NoRepeatedAction ==
    /\ Returned(analysis) =>
           \A i, j \in DOMAIN Results.recommendations :
               i # j => Results.recommendations[i].action
                            # Results.recommendations[j].action
    /\ Returned(crash_issue) =>
           \A i, j \in DOMAIN crash_issue.suggested_fixes :
               i # j => crash_issue.suggested_fixes[i] # crash_issue.suggested_fixes[j]

\* Recommendations made of the hotfix, those of the category and the two
\* baseline ones
C6_Witness ==
    /\ Returned(analysis)
    /\ Results.impact.business_impact = "critical"
    /\ Results.category = "memory"
    /\ Len(Results.recommendations) = 6

(***************************************************************************)
(* C7, as stated: analyze_crash_log never raises for data-shape reasons.   *)
(* For every event, including ones with missing fields, an empty stack     *)
(* trace, zero affected users, or device-memory, OS-version or app-version *)
(* strings that cannot be parsed as numbers, it returns a finding, and an  *)
(* unparseable string contributes no risk-factor signal.                   *)
(***************************************************************************)
C7_NeverRaises ==
    Ran(analysis) =>
        /\ ~Raised(analysis)
        /\ LET os_version == Get(Get(crash_data, "device_info", <<>>), "os_version", "")
           IN  os_version \notin DOMAIN NumberIn =>
                   \A i \in DOMAIN Results.device.patterns :
                       Results.device.patterns[i]
                           \notin {"old_android_version", "old_ios_version"}

\* The issues found in the snapshot and the score computed for them
Found == issues.value

Score == performance_score.value

\* |a - b| <= b * 2^(-bits)
FWithin(a, b, bits) ==
    LET difference == IF FLe(a, b) THEN FSub[b, a] ELSE FSub[a, b]
    IN  \/ difference = FZero
        \/ FLe([difference EXCEPT !.e = @ + bits], b)

(***************************************************************************)
(* C8: the aggregate health score of an empty collection of findings is    *)
(* 1.0: _calculate_performance_score([]) returns 1.0.                      *)
(***************************************************************************)
C8_EmptyScoresOne ==
    (Ran(performance_score) /\ Found = <<>>) => Score = F_1

\* The score of a snapshot whose metrics are all excellent
C8_Witness ==
    /\ Ran(performance_score)
    /\ performance_data # <<>>
    /\ Found = <<>>
    /\ Score = F_1

(***************************************************************************)
(* C9, as stated: for a collection holding a single finding of severity    *)
(* high, medium or low, the aggregate health score equals the finding's    *)
(* own score, 1 - performance_impact.                                      *)
(***************************************************************************)
C9_SingleIssueOwnScore ==
    (Ran(performance_score) /\ Len(Found) = 1 /\ Found[1].severity # "critical") =>
        Score = FSub[F_1, Found[1].performance_impact]

(***************************************************************************)
(* C9, amended: for a collection holding a single finding of severity      *)
(* high, medium or low, the aggregate health score equals the finding's    *)
(* own score, 1 - performance_impact, up to the rounding of the            *)
(* multiplication by the weight and the division by it: the two differ by  *)
(* at most 2^-51 of the own score.  For one low-severity finding with      *)
(* score 0.9 and weight 0.8 the aggregate is exactly 0.9.                  *)
(***************************************************************************)
C9_SingleIssueOwnScoreRounded ==
    (Ran(performance_score) /\ Len(Found) = 1 /\ Found[1].severity # "critical") =>
        LET own == FSub[F_1, Found[1].performance_impact]
        IN  /\ FWithin(Score, own, 51)
            /\ (Found[1].severity = "low" /\ own = F_0_9) => Score = F_0_9

\* The example: one low finding of score 0.9, and the aggregate 0.9
C9_Witness ==
    /\ Ran(performance_score)
    /\ Len(Found) = 1
    /\ Found[1].severity = "low"
    /\ FSub[F_1, Found[1].performance_impact] = F_0_9
    /\ Score = F_0_9

(***************************************************************************)
(* C10: for every collection of issues whose performance_impact lies in    *)
(* [0,1], as it does for all issues analyze_app_performance produces,      *)
(* _calculate_performance_score returns a value in [0,1].                  *)
(***************************************************************************)
C10_ScoreInUnitInterval ==
    /\ Ran(issues) =>
           \A i \in DOMAIN Found :
               /\ FLe(FZero, Found[i].performance_impact)
               /\ FLe(Found[i].performance_impact, F_1)
    /\ Ran(performance_score) => FLe(FZero, Score) /\ FLe(Score, F_1)

\* Two issues, and a score strictly inside the interval
C10_Witness ==
    /\ Ran(performance_score)
    /\ Len(Found) = 2
    /\ FLt(FZero, Score)
    /\ FLt(Score, F_1)

\* The event's stack trace matches a pattern, and every pattern it matches is
\* one of image_loading
ImageLoadingOnly ==
    /\ ~MatchesNothing
    /\ \A i \in DOMAIN stack_trace_patterns :
           re_search(stack_trace_patterns[i].pattern, Trace)
               => stack_trace_patterns[i].category = "image_loading"

\* The scenario's stack trace
ImageScenarioTrace ==
    <<"Exception: Invalid image data", "cached_network_image/src/...">>

(***************************************************************************)
(* C11, as stated: for an event whose stack trace matches image-loading    *)
(* patterns only and whose affected_users is 1000, analyze_crash_log       *)
(* resolves category image_loading, severity critical, and a non-empty     *)
(* recommendation list whose first entry has priority immediate.           *)
(***************************************************************************)
C11_ImageLoadingCritical ==
    (Returned(analysis) /\ ImageLoadingOnly /\ Users = 1000) =>
        /\ Results.category = "image_loading"
        /\ Results.severity = "critical"
        /\ Results.recommendations # <<>>
        /\ Results.recommendations[1].priority = "immediate"

(***************************************************************************)
(* C11, amended: for an event whose stack trace matches image-loading      *)
(* patterns only and whose affected_users is 1000, analyze_crash_log       *)
(* resolves category image_loading and six recommendations, the first of   *)
(* priority high and none of priority immediate.  image_loading earns no   *)
(* category points, so the severity is the tier of 40 points for the       *)
(* users, 15 per critical keyword found and 10 for a low_memory_device     *)
(* entry of the event: medium (55 points) for the trace "Exception:        *)
(* Invalid image data", "cached_network_image/src/..." without such an     *)
(* entry.                                                                  *)
(***************************************************************************)
C11_ImageLoadingByPoints ==
    (Returned(analysis) /\ ImageLoadingOnly /\ Users = 1000) =>
        /\ Results.category = "image_loading"
        /\ Results.severity = severity_level(UnmatchedPoints)
        /\ Len(Results.recommendations) = 6
        /\ Results.recommendations[1].priority = "high"
        /\ \A i \in DOMAIN Results.recommendations :
               Results.recommendations[i].priority # "immediate"
        /\ (Trace = ImageScenarioTrace /\ UnmatchedPoints = 55)
               => Results.severity = "medium"

\* The scenario's event analyzed: image_loading, medium, first action high
C11_Witness ==
    /\ Returned(analysis)
    /\ Trace = ImageScenarioTrace
    /\ Users = 1000
    /\ UnmatchedPoints = 55
    /\ Results.category = "image_loading"
    /\ Results.severity = "medium"
    /\ Results.recommendations[1].priority = "high"

(***************************************************************************)
(* C12: for every ui_fps value below the worst ui_fps threshold, 30,       *)
(* _analyze_ui_rendering reports an issue of category ui_rendering whose   *)
(* severity is at least high; a value of exactly 30 is not below it.       *)
(***************************************************************************)
C12_LowFpsAtLeastHigh ==
    (/\ Ran(issues)
     /\ "ui_fps" \in DOMAIN performance_data
     /\ FLt(performance_data.ui_fps, FInt[30])) =>
        /\ analyze_ui_rendering(performance_data) # <<>>
        /\ \E i \in DOMAIN Found :
               /\ Found[i] = analyze_ui_rendering(performance_data)[1]
               /\ Found[i].category = "ui_rendering"
               /\ Found[i].severity \in {"high", "critical"}
               /\ Found[i].current_metric = performance_data.ui_fps

\* A snapshot of 25 frames per second, and the high ui_rendering issue
\* reported for it
C12_Witness ==
    /\ Ran(issues)
    /\ performance_data = [ui_fps |-> FInt[25]]
    /\ Len(Found) = 1
    /\ Found[1].category = "ui_rendering"
    /\ Found[1].severity = "high"

\* The metrics that have thresholds
ThresholdMetrics ==
    {"startup_time", "memory_usage", "battery_drain", "ui_fps", "network_latency"}

(***************************************************************************)
(* C13: a metric value exactly at its excellent threshold fires no rule:   *)
(* for each of startup_time, memory_usage, battery_drain, ui_fps and       *)
(* network_latency, analyze_app_performance on a snapshot that holds only  *)
(* that metric, at its excellent threshold, returns no issue.              *)
(***************************************************************************)
C13_ExcellentFiresNothing ==
    \A k \in ThresholdMetrics :
        (/\ Ran(issues)
         /\ DOMAIN performance_data = {k}
         /\ performance_data[k] = performance_thresholds[k].excellent) =>
            Found = <<>>

\* Each of the five metrics alone at its excellent threshold is a snapshot,
\* and the one of startup_time has been analyzed to no issue
C13_Witness ==
    /\ \A k \in ThresholdMetrics :
           (k :> performance_thresholds[k].excellent) \in Snapshots
    /\ Ran(issues)
    /\ performance_data = [startup_time |-> FInt[2]]
    /\ Found = <<>>

\* The patterns of the rule base that stack trace t matches
MatchedPatterns(t) ==
    {i \in DOMAIN stack_trace_patterns : re_search(stack_trace_patterns[i].pattern, t)}

\* The substrings FirebaseCrashlyticsBot._analyze_stack_trace looks for that
\* stack trace t contains
MatchedSubstrings(t) ==
    {pat \in UNION {crash_groups[i].patterns : i \in DOMAIN crash_groups} :
         text_contains(pat, t)}

\* The confidence analyze_crash_log reports for the event with stack trace t
\* in place of its own
ConfidenceWithTrace(t) ==
    generate_root_cause_analysis(determine_crash_category(analyze_stack_trace(t)),
                                 analyze_stack_trace(t),
                                 Results.device).confidence

(***************************************************************************)
(* C14, as stated: confidence is monotonically non-decreasing in the       *)
(* corroborating signals.  If the stack trace of event B matches every     *)
(* pattern that the one of event A matches and more, all else equal, the   *)
(* confidence of B's finding is at least that of A's: for                  *)
(* CrashAnalyzer.analyze_crash_log (root_cause.confidence) and for         *)
(* FirebaseCrashlyticsBot.analyze_crash_issue (confidence_score).          *)
(***************************************************************************)
C14_ConfidenceMonotone ==
    /\ Returned(analysis) =>
           \A t \in StackTraces :
               (/\ MatchedPatterns(Trace) \subseteq MatchedPatterns(t)
                /\ MatchedPatterns(Trace) # MatchedPatterns(t)) =>
                   FLe(Results.root_cause.confidence, ConfidenceWithTrace(t))
    /\ Returned(crash_issue) =>
           \A t \in StackTraces :
               (/\ MatchedSubstrings(Trace) \subseteq MatchedSubstrings(t)
                /\ MatchedSubstrings(Trace) # MatchedSubstrings(t)
                /\ Len(Trace) <= Len(t)) =>
                   FLe(crash_issue.confidence_score,
                       analyze_crash_issue([crash_data EXCEPT !.stack_trace = t],
                                           hashseed).confidence_score)

\* The categories of the rule base, and the one of no match
Categories ==
    {stack_trace_patterns[i].category : i \in DOMAIN stack_trace_patterns} \cup {"unknown"}

BaselineActions == {"Add comprehensive logging", "Update dependencies"}

\* recommendations is not empty, holds both baseline actions, and each of
\* them after every other action of its priority class
BaselineLast(recommendations) ==
    /\ recommendations # <<>>
    /\ \A b \in BaselineActions :
           \E i \in DOMAIN recommendations :
               /\ recommendations[i].action = b
               /\ \A j \in DOMAIN recommendations :
                      (/\ recommendations[j].action \notin BaselineActions
                       /\ recommendations[j].priority = recommendations[i].priority)
                          => j < i

(***************************************************************************)
(* C15: for every category, root cause and impact,                         *)
(* _generate_recommendations returns a non-empty list that contains both   *)
(* baseline actions, "Add comprehensive logging" and "Update               *)
(* dependencies", each after every category-specific action of the same    *)
(* priority class: in the finding analyze_crash_log returns, and for every *)
(* other category and business impact with the finding's root cause.       *)
(***************************************************************************)
C15_BaselineActionsLast ==
    Returned(analysis) =>
        /\ BaselineLast(Results.recommendations)
        /\ \A category \in Categories, business_impact \in Severities :
               BaselineLast(generate_recommendations(
                   category, Results.root_cause,
                   [Results.impact EXCEPT !.business_impact = business_impact]))

\* A finding of six recommendations: the hotfix, three of memory, of which
\* the last is medium, then logging, and dependencies last
C15_Witness ==
    /\ Returned(analysis)
    /\ Results.category = "memory"
    /\ Len(Results.recommendations) = 6
    /\ Results.recommendations[1].priority = "immediate"
    /\ Results.recommendations[4].action = "Review resource disposal"
    /\ Results.recommendations[4].priority = "medium"
    /\ Results.recommendations[5].action = "Add comprehensive logging"
    /\ Results.recommendations[6].action = "Update dependencies"

(***************************************************************************)
(* C16: any number of analyze_crash_log evaluations may run concurrently   *)
(* on one CrashAnalyzer without locking.  Under every interleaving of the  *)
(* statements of the calls, each call works on the event it was passed and *)
(* returns the finding, or raises the exception, that analyze_crash_log    *)
(* gives for that event when run alone at the time of the call, and no     *)
(* call changes analysis_patterns or crash_database.                       *)
(***************************************************************************)
C16_ConcurrentCallsIndependent ==
    /\ analysis_patterns = load_analysis_patterns
    /\ crash_database = <<>>
    /\ \A w \in Workers :
           /\ InCall(w) => frames[frame(w)].crash_data = held[w].crash_data
           /\ pc[w] = "done" =>
                  returned[w] = analyze_crash_log(held[w].crash_data, held[w].t)

\* Two calls on different events are under way at once, the second begun
\* later than the first, each about to return the finding of its own event
C16_Witness ==
    \E w, v \in Workers :
        /\ pc[w] = "return" /\ pc[v] = "return"
        /\ held[w].crash_data # held[v].crash_data
        /\ frames[frame(w)].analysis = analyze_crash_log(held[w].crash_data, held[w].t)
        /\ frames[frame(v)].analysis = analyze_crash_log(held[v].crash_data, held[v].t)
        /\ frames[frame(w)].analysis.analysis_results.category = "image_loading"
        /\ frames[frame(v)].analysis.analysis_results.category = "memory"
        /\ held[v].t > held[w].t

\* The number of patterns of category c that the event's stack trace matches
HitCount(c) ==
    Cardinality({i \in MatchedPatterns(Trace) : stack_trace_patterns[i].category = c})

\* The place of category c in the declaration order of the rule base
DeclarationIndex(c) ==
    CHOOSE i \in DOMAIN stack_trace_patterns :
        /\ stack_trace_patterns[i].category = c
        /\ \A j \in 1..(i - 1) : stack_trace_patterns[j].category # c

\* The first line of the event's stack trace that matches a pattern of
\* category c
FirstLineOf(c) ==
    CHOOSE l \in DOMAIN Trace :
        /\ \E i \in MatchedPatterns(<<Trace[l]>>) : stack_trace_patterns[i].category = c
        /\ \A k \in 1..(l - 1) :
               \A i \in MatchedPatterns(<<Trace[k]>>) : stack_trace_patterns[i].category # c

(***************************************************************************)
(* C17: _determine_crash_category returns the category with the highest    *)
(* number of pattern hits.  The category of a finding has at least as many *)
(* hits as every other category, so a category with fewer hits never wins  *)
(* over one with strictly more, whether or not its pattern occurs earlier  *)
(* in the text or is checked earlier.                                      *)
(***************************************************************************)
C17_MostHitsWins ==
    (Returned(analysis) /\ ~MatchesNothing) =>
        /\ HitCount(Results.category) > 0
        /\ \A d \in Categories : HitCount(d) <= HitCount(Results.category)
        /\ Results.category = determine_crash_category(Results.stack_trace)

\* image_loading is declared first and matched on the first line, with one
\* hit; native_plugin, with two hits on the second line, is the category
C17_Witness ==
    /\ Returned(analysis)
    /\ Trace = <<"Exception: Invalid image data",
                 "PlatformException(error, MethodChannel)">>
    /\ HitCount("image_loading") = 1
    /\ HitCount("native_plugin") = 2
    /\ FirstLineOf("image_loading") < FirstLineOf("native_plugin")
    /\ DeclarationIndex("image_loading") < DeclarationIndex("native_plugin")
    /\ Results.category = "native_plugin"

\* The categories with the most hits in the event's stack trace
TopCategories ==
    {c \in Categories : /\ HitCount(c) > 0
                        /\ \A d \in Categories : HitCount(d) <= HitCount(c)}

(***************************************************************************)
(* C18: when two or more categories tie for the maximum hit count, the     *)
(* resolved category is the one of them declared first in the rule base    *)
(* (stack_trace_patterns order), wherever the matches occur in the text.   *)
(***************************************************************************)
C18_TieGoesToFirstDeclared ==
    (Returned(analysis) /\ Cardinality(TopCategories) >= 2) =>
        /\ Results.category \in TopCategories
        /\ \A d \in TopCategories :
               DeclarationIndex(Results.category) <= DeclarationIndex(d)

\* memory is matched on the first line and image_loading on the second, one
\* hit each; image_loading, declared first, is the category
C18_Witness ==
    /\ Returned(analysis)
    /\ TopCategories = {"image_loading", "memory"}
    /\ FirstLineOf("memory") < FirstLineOf("image_loading")
    /\ DeclarationIndex("image_loading") < DeclarationIndex("memory")
    /\ Results.category = "image_loading"

\* The points the critical keywords add to the severity score of the event:
\* its score less the score with no issue found
KeywordPoints ==
    severity_score(crash_data, Results.stack_trace)
        - severity_score(crash_data,
                         [k \in DOMAIN Results.stack_trace \ {"issues_found"} |->
                              Results.stack_trace[k]])

\* The critical keywords found in the event's stack trace
CriticalKeywordsFound ==
    {error_keywords[k].keyword : k \in
        {j \in DOMAIN error_keywords : /\ error_keywords[j].severity = "critical"
                                       /\ text_contains(error_keywords[j].keyword, Trace)}}

(***************************************************************************)
(* C19, as stated: the keyword-urgency contribution to the severity score  *)
(* is 15 points per distinct critical-tier keyword found in the text       *)
(* (crash, fatal, exception, error, failed) and never exceeds 45 points.   *)
(***************************************************************************)
C19_KeywordPointsCapped ==
    Returned(analysis) =>
        /\ KeywordPoints = IF Cardinality(CriticalKeywordsFound) <= 3
                           THEN 15 * Cardinality(CriticalKeywordsFound)
                           ELSE 45
        /\ KeywordPoints <= 45

\* The event with device_info['memory'] left out
WithoutMemory ==
    IF "device_info" \in DOMAIN crash_data
    THEN [crash_data EXCEPT !.device_info =
             [k \in DOMAIN crash_data.device_info \ {"memory"} |->
                  crash_data.device_info[k]]]
    ELSE crash_data

(***************************************************************************)
(* C20, as stated: an event whose environment indicates a low-memory       *)
(* device, a device_info memory below 2 GB, receives 10 more severity      *)
(* points from analyze_crash_log than the same event without that          *)
(* indication, and the severity of its finding is the tier of those        *)
(* points.                                                                 *)
(***************************************************************************)
C20_LowMemoryAddsTen ==
    (Returned(analysis) /\ Has(Results.device.patterns, "low_memory_device")) =>
        /\ severity_score(crash_data, Results.stack_trace)
               = severity_score(WithoutMemory, Results.stack_trace) + 10
        /\ Results.severity
               = severity_level(severity_score(WithoutMemory, Results.stack_trace) + 10)

\* The point total of the event
Points == severity_score(crash_data, Results.stack_trace)

(***************************************************************************)
(* C21: the severity tier is a function of the additive point total alone: *)
(* a total of at least 80 gives critical, at least 60 gives high, at least *)
(* 40 gives medium, and anything lower gives low.                          *)
(***************************************************************************)
C21_TierFromPoints ==
    Returned(analysis) =>
        /\ Results.severity = "critical" <=> Points >= 80
        /\ Results.severity = "high" <=> (Points >= 60 /\ Points < 80)
        /\ Results.severity = "medium" <=> (Points >= 40 /\ Points < 60)
        /\ Results.severity = "low" <=> Points < 40

\* A total of exactly 80 points: 40 of the users, 15 of a keyword and 25 of
\* the category, and the tier critical
C21_Witness ==
    /\ Returned(analysis)
    /\ Points = 80
    /\ Users = 1000
    /\ Results.category \in high_impact_categories
    /\ Results.severity = "critical"

\* The recommendations hold the hotfix action, with priority immediate
HasHotfix ==
    \E i \in DOMAIN Results.recommendations :
        /\ Results.recommendations[i].action = "Hotfix deployment required"
        /\ Results.recommendations[i].priority = "immediate"

(***************************************************************************)
(* C22, as stated: the synthetic "Hotfix deployment required" action with  *)
(* priority immediate is added to the recommendations exactly when the     *)
(* finding's severity is critical and its category is in the high-impact   *)
(* set (memory, flutter_framework, native_plugin).                         *)
(***************************************************************************)
C22_HotfixIffCritical ==
    Returned(analysis) =>
        (HasHotfix <=> /\ Results.severity = "critical"
                       /\ Results.category \in {"memory", "flutter_framework",
                                                 "native_plugin"})

(***************************************************************************)
(* C22, amended: the "Hotfix deployment required" action with priority     *)
(* immediate is added to the recommendations exactly when the finding's    *)
(* category is in the high-impact set (memory, flutter_framework,          *)
(* native_plugin) and its severity is critical or high, which is when      *)
(* _assess_crash_impact reports the business impact critical; it is then   *)
(* the first entry of the list.                                            *)
(***************************************************************************)
C22_HotfixIffCriticalOrHigh ==
    Returned(analysis) =>
        /\ HasHotfix <=> /\ Results.severity \in {"critical", "high"}
                         /\ Results.category \in {"memory", "flutter_framework",
                                                   "native_plugin"}
        /\ HasHotfix <=> Results.impact.business_impact = "critical"
        /\ HasHotfix => Results.recommendations[1] = hotfix_recommendation

\* A memory finding of severity high, with the hotfix first
C22_Witness ==
    /\ Returned(analysis)
    /\ Results.category = "memory"
    /\ Results.severity = "high"
    /\ HasHotfix
    /\ Results.recommendations[1].priority = "immediate"

\* The entries in the order in which _generate_recommendations adds them
Added(category, impact) ==
    (IF impact.business_impact = "critical" THEN <<hotfix_recommendation>> ELSE <<>>)
    \o category_recommendations(category)
    \o general_recommendations

\* The place of the entry with action a in that order
AddedAt(category, impact, a) ==
    CHOOSE i \in DOMAIN Added(category, impact) :
        Added(category, impact)[i].action = a

\* recommendations is in the order immediate, high, medium, low, holds what
\* was added, and entries of one class are in the order they were added in
SortedStable(recommendations, category, impact) ==
    /\ Len(recommendations) = Len(Added(category, impact))
    /\ \A i \in DOMAIN recommendations :
           \E j \in DOMAIN Added(category, impact) :
               Added(category, impact)[j]
                   = recommendations[i]
    /\ \A i, j \in DOMAIN recommendations :
           i < j =>
               /\ priority_order[recommendations[i].priority]
                      <= priority_order[recommendations[j].priority]
               /\ recommendations[i].priority = recommendations[j].priority
                      => AddedAt(category, impact, recommendations[i].action)
                             < AddedAt(category, impact, recommendations[j].action)

(***************************************************************************)
(* C23: the list returned by _generate_recommendations is ordered by       *)
(* priority class immediate < high < medium < low, and entries of the same *)
(* class keep the relative order in which they were added (stable sort):   *)
(* in the finding analyze_crash_log returns, and for every other category  *)
(* and business impact.                                                    *)
(***************************************************************************)
C23_SortedByPriorityStable ==
    Returned(analysis) =>
        /\ SortedStable(Results.recommendations, Results.category, Results.impact)
        /\ \A category \in Categories, business_impact \in Severities :
               SortedStable(
                   generate_recommendations(
                       category, Results.root_cause,
                       [Results.impact EXCEPT !.business_impact = business_impact]),
                   category,
                   [Results.impact EXCEPT !.business_impact = business_impact])

\* The four classes in one list: the hotfix, the two high entries of memory,
\* its medium one before the medium one added after it, and the low one last
C23_Witness ==
    /\ Returned(analysis)
    /\ Results.category = "memory"
    /\ Len(Results.recommendations) = 6
    /\ Results.recommendations[1].priority = "immediate"
    /\ Results.recommendations[2].action = "Add memory monitoring"
    /\ Results.recommendations[3].action = "Optimize image processing"
    /\ Results.recommendations[4].action = "Review resource disposal"
    /\ Results.recommendations[5].action = "Add comprehensive logging"
    /\ Results.recommendations[6].priority = "low"

\* A critical issue, as _analyze_startup_time reports it for 6 seconds
CriticalIssue == analyze_startup_time([startup_time |-> FInt[6]])[1]

(***************************************************************************)
(* C24, as stated: a critical finding visibly suppresses the aggregate     *)
(* health score.  For any collection of issues, adding one critical issue  *)
(* makes _calculate_performance_score lower than the score of the          *)
(* collection without it, or leaves it at the minimum 0; the score is      *)
(* never equal and positive, or higher.                                    *)
(***************************************************************************)
C24_CriticalLowersScore ==
    Ran(performance_score) =>
        \E with \in {calculate_performance_score(Found \o <<CriticalIssue>>)} :
            \/ FLt(with, Score)
            \/ with = FZero /\ Score = FZero

(***************************************************************************)
(* C25: when every issue in a non-empty collection is critical, the weight *)
(* sum is 0 and _calculate_performance_score returns 1.0, the same value   *)
(* as for the empty collection: the critical issues are ignored by the     *)
(* aggregate.                                                              *)
(***************************************************************************)
C25_AllCriticalScoresOne ==
    (/\ Ran(performance_score)
     /\ Found # <<>>
     /\ \A i \in DOMAIN Found : Found[i].severity = "critical") =>
        /\ score_sums(Found, 1, FZero, FZero)[1] = FZero
        /\ Score = F_1
        /\ Score = calculate_performance_score(<<>>)

\* Two critical issues, of startup time and memory usage, and the score 1.0
C25_Witness ==
    /\ Ran(performance_score)
    /\ Len(Found) = 2
    /\ Found[1].severity = "critical"
    /\ Found[2].severity = "critical"
    /\ Score = F_1

\* The categories of the two classifiers correspond
SameCategory(analyzer_category, bot_category) ==
    \/ analyzer_category = bot_category
    \/ analyzer_category = "unknown" /\ bot_category = "third_party"

(***************************************************************************)
(* C26: the two classifiers that ChatSYCrashManager runs on the same crash *)
(* agree: for every stack trace, the category of CrashAnalyzer (most hits  *)
(* wins) equals the category of FirebaseCrashlyticsBot._analyze_stack_trace*)
(* (first matching group wins), with "unknown" corresponding to            *)
(* third_party.                                                            *)
(***************************************************************************)
C26_ClassifiersAgree ==
    (step >= 2 /\ ~Raised(results)) =>
        \A i \in DOMAIN results.crash_analysis :
            SameCategory(results.crash_analysis[i].analysis.analysis_results.category,
                         results.crash_analysis[i].crash_issue.category)

\* The fix of a category that went to FirebaseCrashlyticsBot.apply_crash_fixes
\* and whose fixer returned the status completed
CompletedByBot(f) ==
    /\ f.key \notin {"image_loading", "network", "memory"}
    /\ Get(f.fix, "status", "") = "completed"

(***************************************************************************)
(* C29: in ChatSYCrashManager a fix that completed without errors is never *)
(* reported as failed: for a crash category routed to                      *)
(* FirebaseCrashlyticsBot.apply_crash_fixes (any category other than       *)
(* image_loading, network and memory) whose fixer returns the status       *)
(* "completed", _generate_recommendations adds no "fix failed" entry, and  *)
(* no "Address failed fixes" heading when nothing else failed.             *)
(***************************************************************************)
C29_CompletedFixNotFailed ==
    (step = 5 /\ ~Raised(results)) =>
        /\ \A k \in DOMAIN results.fixes :
               CompletedByBot(results.fixes[k]) =>
                   ~Has(results.recommendations,
                        <<"   - ", Get(results.fixes[k].fix, "fixer_type", "Unknown"),
                          " fix failed">>)
        /\ (\A k \in DOMAIN results.fixes :
                \/ CompletedByBot(results.fixes[k])
                \/ Get(results.fixes[k].fix, "success", FALSE))
               => ~Has(results.recommendations, <<"MEDIUM: Address failed fixes">>)

\* The place of a higher-is-better metric in health_points
HigherIsBetter == [ui_fps |-> 4, user_satisfaction |-> 7]

\* The rows of performance_metrics
Recorded == dashboard.performance_metrics

(***************************************************************************)
(* C27: PerformanceDashboard._check_performance_alerts raises an alert for *)
(* a metric only when its value is at or beyond the threshold in that      *)
(* metric's worse direction: for the higher-is-better metrics ui_fps and   *)
(* user_satisfaction, a recorded value that earns full health points in    *)
(* _calculate_overall_health (ui_fps >= 60, user_satisfaction >= 0.9) has  *)
(* no alert, and a recorded value below the critical threshold has a       *)
(* critical alert.                                                         *)
(***************************************************************************)
C27_AlertsInWorseDirection ==
    program = "performance_dashboard" =>
        \A name \in DOMAIN HigherIsBetter, r \in DOMAIN Recorded :
            /\ health_points(Recorded[r])[HigherIsBetter[name]] = F_1
                   => \A a \in DOMAIN dashboard.alerts :
                          ~ /\ dashboard.alerts[a].metric_name = name
                            /\ dashboard.alerts[a].current_value = Recorded[r][name]
            /\ FLt(Recorded[r][name], thresholds[name].critical)
                   => \E a \in DOMAIN dashboard.alerts :
                          /\ dashboard.alerts[a].metric_name = name
                          /\ dashboard.alerts[a].current_value = Recorded[r][name]
                          /\ dashboard.alerts[a].severity = "critical"

(***************************************************************************)
(* C28: after any sequence of record_performance_metric calls every alert  *)
(* the dashboard created is still stored: the performance_alerts table     *)
(* holds exactly one row per alert of the in-memory alerts list, also when *)
(* two alerts for the same metric are created within the same clock        *)
(* second.                                                                 *)
(***************************************************************************)
C28_OneRowPerAlert ==
    program = "performance_dashboard" =>
        /\ Len(dashboard.performance_alerts) = Len(dashboard.alerts)
        /\ \A a \in DOMAIN dashboard.alerts :
               Cardinality({row \in DOMAIN dashboard.performance_alerts :
                                dashboard.performance_alerts[row]
                                    = [id |-> a] @@ dashboard.alerts[a]}) = 1

\* The health score of the monitor
HealthScore == calculate_health_score(monitor.metrics)

\* The three issue counters
IssueCounters ==
    <<monitor.metrics.code_signing_issues, monitor.metrics.cocoapods_issues,
      monitor.metrics.flutter_issues>>

\* The health score is in [0, 1]
HealthInRange == FLe(FZero, HealthScore) /\ FLe(HealthScore, F_1)

\* What a call of track_build_metrics does to the score and the counters
HealthStep ==
    /\ FLe(HealthScore', HealthScore)
    /\ monitor'.metrics.build_success_rate # monitor.metrics.build_success_rate
           => /\ IssueCounters' = IssueCounters
              /\ HealthScore' = HealthScore

(***************************************************************************)
(* C30: for BuildHealthMonitor, after any sequence of track_build_metrics  *)
(* calls the health score stays in [0,1] and never increases from one call *)
(* to the next; a successful build leaves the three issue counters         *)
(* (code_signing, cocoapods, flutter) and hence the health score           *)
(* unchanged.                                                              *)
(***************************************************************************)
C30_HealthScoreNeverIncreases == []HealthInRange /\ [][HealthStep]_vars

\* Builds have succeeded and builds have failed with issues of the three
\* types, twelve in all, and the score is at its floor
C30_Witness ==
    /\ program = "xcode_deploy_bot"
    /\ monitor.metrics.build_success_rate >= 1
    /\ IssueCounters = <<4, 4, 4>>
    /\ HealthScore = FZero

=============================================================================
